---------------------------- MODULE Spec2Model ----------------------------
(***************************************************************************)
(* Verification model of the cv-prd requirements-traceability engine:      *)
(*   - GraphService (backend/app/services/graph_service.py): connection    *)
(*     state, query construction with inlined escaped parameters, node and *)
(*     edge upserts, traceability queries, cascading delete;               *)
(*   - PRDOrchestrator (backend/app/services/orchestrator.py): fan-out of  *)
(*     a chunk to the relational store, the vector index and the graph,    *)
(*     and the read path with fallback.                                    *)
(* Strings the code inspects character by character are sequences of       *)
(* one-character strings.                                                  *)
(***************************************************************************)
EXTENDS Integers, Sequences, FiniteSets, TLC

(***************************************************************************)
(* Bounds of the model.                                                    *)
(***************************************************************************)
\* longest string handed to _escape_value
MaxStrLen == 3
\* longest parameter value handed to _query
MaxValLen == 2
\* most placeholders in one query text
MaxPlaceholders == 2

VARIABLES
  \* ---- query construction (GraphService._escape_value / _query) ----
  ev,          \* the value handed to _escape_value
  elit,        \* the literal it returned
  qcypher,     \* the query text handed to _query
  qparams,     \* its parameters, in the dict's iteration order
  qprocessed,  \* processed_query as sent to the store
  qpc,         \* "idle" | "input" | "escaped" | "substituted"
  \* ---- response decoding ----
  dresp,       \* the raw response handed to _parse_result
  dsent,       \* what the store encoded into it: [kind, rows]
  dparsed,     \* what _parse_result did: [raised, rows]
  dpc,         \* "idle" | "input" | "parsed"
  \* ---- the relationship detector ----
  inputChunks, \* the list detect_relationships is given
  relationships, \* the list it returned
  kpc,         \* "idle" | "input" | "detected"
  \* ---- feature requests ----
  requests,    \* request id -> [status, prd_id] of its row
  \* ---- a coverage call among other callers ----
  cov,         \* the coverage call in progress or last returned
  \* ---- background jobs ----
  jobs,        \* [rows, tasks, active, cancelReturnedTrue]
  \* ---- the GraphService object ----
  client,      \* self.client is not None
  available,   \* self.available
  conn,        \* how construction went: [ctor, open, ping, probe]
  ret,         \* the last call of the sequential client: what it returned
  moduleLoaded, \* the server has the graph module (the environment)
  \* ---- the graph held by the store ----
  nodes,       \* set of [label, id, copy, p]: p the node's properties
  edges,       \* set of [src, dst, type, copy, p]: src, dst name nodes, p
               \* is a set of <<key, value>> pairs
  \* ---- history kept for the claims ----
  sentRel,     \* relationship types inlined in a query sent to the store
  upserted,    \* chunk id -> the data of its latest completed
               \* create_chunk_node, and whether that call found a node with
               \* other properties
  del,         \* the delete_prd call in progress or last returned
  \* ---- the PRDOrchestrator and its other two stores ----
  svc,         \* [graph, db]: which optional services __init__ obtained
  rel,         \* the relational store: [prds, chunks]
  vec,         \* the vector index: ids of the chunks indexed
  run          \* the last call of the orchestrator: what it did and returned

queryVars == <<ev, elit, qcypher, qparams, qprocessed, qpc>>
decodeVars == <<dresp, dsent, dparsed, dpc>>
clientVars == <<client, available, conn, ret, moduleLoaded>>
graphVars == <<nodes, edges, sentRel, upserted, del>>
coordVars == <<svc, rel, vec, run>>

auxVars == <<inputChunks, relationships, kpc, requests, cov, jobs>>

vars == <<queryVars, decodeVars, auxVars, clientVars, graphVars, coordVars>>

(***************************************************************************)
(* Characters.                                                             *)
(***************************************************************************)
BSL   == "\\"
QUOTE == "'"
LF    == "LF"
CR    == "CR"
TAB   == "TAB"
DOLLAR == "$"

\* Python's str.replace(old, new) for a non-empty old: leftmost,
\* non-overlapping occurrences, scanned left to right.
RECURSIVE StrReplace(_, _, _)
StrReplace(s, old, new) ==
  IF Len(s) < Len(old) THEN s
  ELSE IF SubSeq(s, 1, Len(old)) = old
       THEN new \o StrReplace(SubSeq(s, Len(old) + 1, Len(s)), old, new)
       ELSE <<Head(s)>> \o StrReplace(Tail(s), old, new)

\* A plausible slip in the escaping chain: the quote is escaped before the
\* backslash, so the backslash added for the quote is doubled afterwards.
EscapeChainQuoteFirst(s) ==
  StrReplace(StrReplace(StrReplace(StrReplace(StrReplace(s,
    <<QUOTE>>, <<BSL, QUOTE>>),
    <<BSL>>, <<BSL, BSL>>),
    <<LF>>, <<BSL, "n">>),
    <<CR>>, <<BSL, "r">>),
    <<TAB>>, <<BSL, "t">>)

\* graph_service.py 134-141: the chain of five replace calls, in its order.
EscapeChain(s) ==
  StrReplace(StrReplace(StrReplace(StrReplace(StrReplace(s,
    <<BSL>>, <<BSL, BSL>>),
    <<QUOTE>>, <<BSL, QUOTE>>),
    <<LF>>, <<BSL, "n">>),
    <<CR>>, <<BSL, "r">>),
    <<TAB>>, <<BSL, "t">>)

\* Values: [t |-> "null" | "str" | "true" | "false", v |-> the characters of
\* a str].
NullValue == [t |-> "null", v |-> <<>>]
StrValue(s) == [t |-> "str", v |-> s]
BoolValue(b) == [t |-> IF b THEN "true" ELSE "false", v |-> <<>>]

\* graph_service.py 128-152, for None, str and bool.
EscapeValue(value) ==
  IF value.t = "null" THEN <<"n", "u", "l", "l">>
  ELSE IF value.t = "str" THEN <<QUOTE>> \o EscapeChain(value.v) \o <<QUOTE>>
  ELSE IF value.t = "true" THEN <<"t", "r", "u", "e">>
  ELSE <<"f", "a", "l", "s", "e">>

\* graph_service.py 108-113: one replace per parameter, in the dict's order,
\* each applied to the text the previous replacements produced.
RECURSIVE SubstituteParams(_, _)
SubstituteParams(query, params) ==
  IF params = <<>> THEN query
  ELSE SubstituteParams(
         StrReplace(query, <<DOLLAR>> \o Head(params).key,
                    EscapeValue(Head(params).value)),
         Tail(params))

(***************************************************************************)
(* Inputs of the query-construction specification.                         *)
(***************************************************************************)
RECURSIVE SeqsUpTo(_, _)
SeqsUpTo(S, n) ==
  IF n = 0 THEN {<<>>}
  ELSE LET shorter == SeqsUpTo(S, n - 1)
       IN shorter \cup {Append(s, c) : s \in shorter, c \in S}

EscChars == {BSL, QUOTE, LF, CR, TAB, "n", "r", "t"}
EscInputs == {StrValue(s) : s \in SeqsUpTo(EscChars, MaxStrLen)}
               \cup {NullValue, BoolValue(TRUE), BoolValue(FALSE)}

\* Parameter names: "a" is a prefix of "ab".
NameChars == {"a", "b"}
ParamNames == {<<"a">>, <<"b">>, <<"a", "b">>}
ValChars == {DOLLAR, "a", "b", QUOTE}
ParamValues == {StrValue(s) : s \in SeqsUpTo(ValChars, MaxValLen)}

\* A query text: placeholders separated by a blank, as in
\* "SET c.a = $a, c.ab = $ab".
RECURSIVE QueryOf(_)
QueryOf(names) ==
  IF names = <<>> THEN <<>>
  ELSE <<" ", DOLLAR>> \o Head(names) \o QueryOf(Tail(names))

NameLists == {ns \in SeqsUpTo(ParamNames, MaxPlaceholders) : ns # <<>>}
Range(f) == {f[i] : i \in DOMAIN f}

\* The parameter dicts for a list of placeholders: one entry per distinct
\* name (update_chunk_node 265-270 builds the text and the dict together),
\* in any insertion order.
ParamDicts(names) ==
  {ps \in SeqsUpTo([key : Range(names), value : ParamValues], MaxPlaceholders) :
      /\ {ps[i].key : i \in DOMAIN ps} = Range(names)
      /\ \A i, j \in DOMAIN ps : ps[i].key = ps[j].key => i = j}

\* A value of the response as Python sees it: k is its type, s the payload
\* of a scalar, v the items of a list.
PyValue(k, s, v) == [k |-> k, s |-> s, v |-> v]
PyNone == PyValue("none", "", <<>>)
PyStr(s) == PyValue("str", s, <<>>)
PyInt(s) == PyValue("int", s, <<>>)
PyBool(s) == PyValue("bool", s, <<>>)
PyFloat(s) == PyValue("float", s, <<>>)
PyDict(s) == PyValue("dict", s, <<>>)
PyList(v) == PyValue("list", "", v)

NoSent == [kind |-> "none", rows |-> <<>>]
NoParsed == [raised |-> FALSE, rows |-> <<>>]

DecodeIdle ==
  /\ dresp = PyNone /\ dsent = NoSent /\ dparsed = NoParsed /\ dpc = "idle"

BuildIdle ==
  /\ ev = NullValue /\ elit = <<>>
  /\ qcypher = <<>> /\ qparams = <<>> /\ qprocessed = <<>>
  /\ qpc = "idle"

QueryIdle == BuildIdle /\ DecodeIdle

DetectIdle == inputChunks = <<>> /\ relationships = <<>> /\ kpc = "idle"

RequestIds == {"r1", "r2"}
\* no row of feature_requests
NoRequest == [status |-> "none", prd_id |-> "none"]
RequestsIdle == requests = [r \in RequestIds |-> NoRequest]

\* no coverage call yet
NoCov ==
  [pc |-> "idle", type |-> "-", prd |-> "-", total_requirements |-> 0,
   covered_requirements |-> 0, uncovered_requirements |-> 0,
   total_artifacts |-> 0, coverage_percent |-> 0]
CovIdle == cov = NoCov

\* the job ids create_job hands out
JobIds == {"j1", "j2"}
\* no job row, no background task, _active_jobs empty
NoJobs ==
  [rows |-> [j \in JobIds |-> "none"], tasks |-> [j \in JobIds |-> "none"],
   active |-> {}, cancelReturnedTrue |-> {}]
JobsIdle == jobs = NoJobs

AuxIdle == DetectIdle /\ RequestsIdle /\ CovIdle /\ JobsIdle

(***************************************************************************)
(* The graph and the statements the queries are made of.                   *)
(***************************************************************************)
ChunkIds == {"c1", "c2"}
PrdIds == {"p1", "p2"}

\* chunk_data as the callers pass it: type, text, priority, context
ChunkData ==
  { [type |-> "requirement", text |-> "t1", priority |-> "high",
     context |-> "x1"],
    [type |-> "test_case", text |-> "t2", priority |-> "medium",
     context |-> "x2"] }
NoData == [type |-> "-", text |-> "-", priority |-> "-", context |-> "-"]
PrdData == { [name |-> "n1", description |-> "d1"] }

IdleDel ==
  [pc |-> "idle", prd |-> "-", belonged |-> {}, interleaved |-> FALSE,
   detached |-> 0]

\* the smallest copy number not in use
MinFree(used) ==
  CHOOSE i \in 1..(Cardinality(used) + 1) :
    i \notin used /\ \A j \in 1..(i - 1) : j \in used

\* MATCH (n:label {id: id})
Matching(ns, label, id) == {n \in ns : n.label = label /\ n.id = id}

\* A node is [label, id, copy, p]: the store tells apart two nodes with the
\* same label and id property (copy 1, copy 2, ...); p is its properties.
\* An edge is [src, dst, type, copy, p] between two nodes' Nid.
Nid(n) == <<n.label, n.id, n.copy>>
NewNode(ns, label, id, p) ==
  [label |-> label, id |-> id,
   copy |-> MinFree({n.copy : n \in Matching(ns, label, id)}), p |-> p]

\* A plausible slip: CREATE where MERGE is meant.
CreateNodeAlways(ns, label, id, p) == ns \cup {NewNode(ns, label, id, p)}

\* MERGE (n:label {id: id}) SET n.k = v for every k of p
MergeNode(ns, label, id, p) ==
  IF Matching(ns, label, id) = {}
  THEN ns \cup {NewNode(ns, label, id, p)}
  ELSE {IF n.label = label /\ n.id = id THEN [n EXCEPT !.p = p] ELSE n :
          n \in ns}

\* SET r.k = v for every <<k, v>> of new; the other properties stay
SetProps(old, new) ==
  {kv \in old : ~\E kv2 \in new : kv2[1] = kv[1]} \cup new

Between(es, src, dst, type) ==
  {e \in es : e.src = src /\ e.dst = dst /\ e.type = type}

\* A plausible slip: CREATE where MERGE is meant.
CreateEdgeAlways(ns, es, srcLabel, srcId, dstLabel, dstId, type, props) ==
  es \cup
  {[src |-> Nid(a), dst |-> Nid(b), type |-> type,
    copy |-> MinFree({e.copy : e \in Between(es, Nid(a), Nid(b), type)}),
    p |-> props] : a \in Matching(ns, srcLabel, srcId),
                   b \in Matching(ns, dstLabel, dstId)}

\* MATCH (a:srcLabel {id: srcId}) MATCH (b:dstLabel {id: dstId})
\* MERGE (a)-[r:type]->(b) SET r.k = v ...
MergeEdge(ns, es, srcLabel, srcId, dstLabel, dstId, type, props) ==
  LET pairs == {<<Nid(a), Nid(b)>> : a \in Matching(ns, srcLabel, srcId),
                                     b \in Matching(ns, dstLabel, dstId)}
      missing == {pr \in pairs : Between(es, pr[1], pr[2], type) = {}}
      merged == es \cup {[src |-> pr[1], dst |-> pr[2], type |-> type,
                          copy |-> 1, p |-> {}] : pr \in missing}
  IN {IF <<e.src, e.dst>> \in pairs /\ e.type = type
      THEN [e EXCEPT !.p = SetProps(e.p, props)] ELSE e : e \in merged}

\* (c:Chunk)-[:BELONGS_TO]->(p:PRD {id: prd})
ChunksOfPrd(ns, es, prd) ==
  {c \in ns : c.label = "Chunk" /\
     \E e \in es, q \in Matching(ns, "PRD", prd) :
        e.type = "BELONGS_TO" /\ e.src = Nid(c) /\ e.dst = Nid(q)}

EdgesAt(es, nids) == {e \in es : e.src \in nids \/ e.dst \in nids}

\* A plausible slip: the PRD's chunks are not matched, nothing is deleted.
DeleteChunksOfPrdNone(ns, es, prd) == [nodes |-> ns, edges |-> es]

\* MATCH (c:Chunk)-[:BELONGS_TO]->(p:PRD {id: prd}) DETACH DELETE c
DeleteChunksOfPrd(ns, es, prd) ==
  LET victims == {Nid(c) : c \in ChunksOfPrd(ns, es, prd)}
  IN [nodes |-> {n \in ns : Nid(n) \notin victims},
      edges |-> es \ EdgesAt(es, victims)]

\* A plausible slip: the node goes, its relationships stay.
DeletePrdNodeOnly(ns, es, prd) ==
  [nodes |-> {n \in ns : ~(n.label = "PRD" /\ n.id = prd)}, edges |-> es]

\* MATCH (p:PRD {id: prd}) DELETE p: the store deletes a node together with
\* its incoming and outgoing relationships.
DeletePrdNode(ns, es, prd) ==
  LET victims == {Nid(q) : q \in Matching(ns, "PRD", prd)}
  IN [nodes |-> {n \in ns : Nid(n) \notin victims},
      edges |-> es \ EdgesAt(es, victims)]

\* _query 99-105: a command is sent only with a client and available set
QueryOpen == client /\ available

\* no GraphService object yet
NoConn ==
  [ctor |-> "none", open |-> "-", ping |-> "-", probe |-> "-"]
\* no call yet
NoRet ==
  [op |-> "none", arg |-> "-", open |-> FALSE, raised |-> FALSE,
   sent |-> 0, fails |-> {}, value |-> "-"]

ClientIdle ==
  /\ client = FALSE /\ available = FALSE
  /\ conn = NoConn /\ ret = NoRet /\ moduleLoaded = FALSE

\* no orchestrator call yet
NoRun ==
  [op |-> "none", arg |-> "-", planned |-> <<>>, attempted |-> <<>>,
   failed |-> {}, logged |-> {}, raised |-> FALSE, from |-> "-",
   value |-> "-"]

CoordIdle ==
  /\ svc = [graph |-> "absent", db |-> "absent"]
  /\ rel = [prds |-> {}, chunks |-> {}]
  /\ vec = {} /\ run = NoRun

GraphIdle ==
  /\ nodes = {} /\ edges = {} /\ sentRel = {}
  /\ upserted = [c \in ChunkIds |-> [data |-> NoData, overwrote |-> FALSE]]
  /\ del = IdleDel

\* ---- specification of _escape_value ----
InitEscape ==
  /\ AuxIdle
  /\ ClientIdle /\ GraphIdle /\ CoordIdle /\ DecodeIdle
  /\ ev \in EscInputs
  /\ elit = <<>> /\ qpc = "input"
  /\ qcypher = <<>> /\ qparams = <<>> /\ qprocessed = <<>>

\* _escape_value(value)
EscapeValueCall ==
  /\ qpc = "input"
  /\ elit' = EscapeValue(ev)
  /\ qpc' = "escaped"
  /\ UNCHANGED <<ev, qcypher, qparams, qprocessed, decodeVars, auxVars, clientVars,
                 graphVars, coordVars>>

NextEscape == EscapeValueCall

SpecEscape == InitEscape /\ [][NextEscape]_vars

\* ---- specification of the parameter loop of _query ----
InitSubst ==
  /\ AuxIdle
  /\ ClientIdle /\ GraphIdle /\ CoordIdle /\ DecodeIdle
  /\ ev = NullValue /\ elit = <<>>
  /\ qprocessed = <<>> /\ qpc = "input"
  /\ \E names \in NameLists :
       /\ qcypher = QueryOf(names)
       /\ qparams \in ParamDicts(names)

\* the parameter loop of _query(cypher, params)
QuerySubstituteCall ==
  /\ qpc = "input"
  /\ qprocessed' = SubstituteParams(qcypher, qparams)
  /\ qpc' = "substituted"
  /\ UNCHANGED <<ev, elit, qcypher, qparams, decodeVars, auxVars, clientVars,
                 graphVars, coordVars>>

NextSubst == QuerySubstituteCall

SpecSubst == InitSubst /\ [][NextSubst]_vars

(***************************************************************************)
(* Claims about query construction.                                        *)
(***************************************************************************)
\* The reader of a single-quoted literal on the store's side: a backslash
\* takes the next character (n, r, t name LF, CR, TAB; any other character
\* stands for itself), and the first quote not taken by a backslash closes
\* the literal. closed_at is the index of that quote, 0 when there is none.
Unescaped(c) ==
  IF c = "n" THEN LF ELSE IF c = "r" THEN CR ELSE IF c = "t" THEN TAB ELSE c

RECURSIVE ScanLiteral(_, _, _)
ScanLiteral(lit, i, acc) ==
  IF i > Len(lit) THEN [value |-> acc, closed_at |-> 0]
  ELSE IF lit[i] = QUOTE THEN [value |-> acc, closed_at |-> i]
  ELSE IF lit[i] = BSL
       THEN IF i = Len(lit) THEN [value |-> acc, closed_at |-> 0]
            ELSE ScanLiteral(lit, i + 2, Append(acc, Unescaped(lit[i + 1])))
       ELSE ScanLiteral(lit, i + 1, Append(acc, lit[i]))

ReadLiteral(lit) ==
  IF lit = <<>> \/ lit[1] # QUOTE THEN [value |-> <<>>, closed_at |-> 0]
  ELSE ScanLiteral(lit, 2, <<>>)

\* C3: for every string, the literal _escape_value returns is read back as
\* exactly that string, and the quote that closes it is the literal's last
\* character: no quote inside it is left unescaped, so the value is neither
\* truncated nor followed by text of its own.
C3_EscapeRoundTrip ==
  (qpc = "escaped" /\ ev.t = "str") =>
    /\ ReadLiteral(elit).closed_at = Len(elit)
    /\ ReadLiteral(elit).value = ev.v

\* C3 witness: a string with a quote, a backslash and a letter n has been
\* escaped.
C3_Witness ==
  /\ qpc = "escaped"
  /\ ev = StrValue(<<QUOTE, BSL, "n">>)
  /\ elit = <<QUOTE, BSL, QUOTE, BSL, BSL, "n", QUOTE>>

\* The substitution the contract describes: every placeholder of the
\* ORIGINAL text (a "$" and the longest name after it) is replaced by the
\* literal of its own parameter; the literals are not scanned again.
RECURSIVE NameAt(_, _)
NameAt(q, i) ==
  IF i <= Len(q) /\ q[i] \in NameChars THEN <<q[i]>> \o NameAt(q, i + 1)
  ELSE <<>>

HasParam(params, name) == \E k \in DOMAIN params : params[k].key = name
ParamOf(params, name) ==
  params[CHOOSE k \in DOMAIN params : params[k].key = name].value

RECURSIVE SubstituteEach(_, _, _)
SubstituteEach(q, i, params) ==
  IF i > Len(q) THEN <<>>
  ELSE IF q[i] = DOLLAR /\ HasParam(params, NameAt(q, i + 1))
       THEN EscapeValue(ParamOf(params, NameAt(q, i + 1)))
              \o SubstituteEach(q, i + 1 + Len(NameAt(q, i + 1)), params)
       ELSE <<q[i]>> \o SubstituteEach(q, i + 1, params)

\* C2: the query sent to the store is the original text with each
\* placeholder replaced by the escaped literal of its own parameter; a
\* "$name" inside a parameter's value stays as it is, whatever the order of
\* the parameters and also when one name is a prefix of another.
C2_PlaceholdersGetOwnLiteral ==
  qpc = "substituted" => qprocessed = SubstituteEach(qcypher, 1, qparams)

(***************************************************************************)
(* Response decoding: _parse_result and _parse_cell_value. A response is   *)
(* [headers, rows, statistics]; a string of a response has at most one     *)
(* character, and a dict has at most one key, named by its payload.        *)
(***************************************************************************)
\* the longest ARRAY the store sends
MaxArrayLen == 2

IsList(x) == x.k = "list"

\* bool(x)
Truthy(x) ==
  CASE x.k = "none" -> FALSE
    [] x.k = "list" -> x.v # <<>>
    [] x.k \in {"str", "dict"} -> x.s # ""
    [] x.k = "int" -> x.s # "0"
    [] x.k = "bool" -> x.s = "True"
    [] x.k = "float" -> x.s # "0.0"
    [] OTHER -> TRUE

\* cell_type == n, for the integer n: True and 1.0 equal 1
CodeIs(cell_type, n) ==
  \/ cell_type = PyInt(n)
  \/ cell_type = PyFloat(n \o ".0")
  \/ n = "1" /\ cell_type = PyBool("True")

\* "for v in x": a list gives its items, a string its characters, a dict
\* its keys; None and the numbers are not iterable
Iterable(x) == x.k \in {"list", "str", "dict"}
Items(x) ==
  IF x.k = "list" THEN x.v
  ELSE IF x.s = "" THEN <<>>
  ELSE <<PyStr(x.s)>>

\* what a call returns instead of a value when it raises TypeError
PyRaised == PyValue("raised", "TypeError", <<>>)

\* A plausible slip: only NULL is decoded, every other cell gives its value
\* as sent.
ParseCellValueFlat(cell) ==
  IF ~IsList(cell) \/ Len(cell.v) < 2 THEN cell
  ELSE IF CodeIs(cell.v[1], "1") THEN PyNone
  ELSE cell.v[2]

\* _parse_cell_value(cell)
RECURSIVE ParseCellValue(_)
ParseCellValue(cell) ==
  IF ~IsList(cell) \/ Len(cell.v) < 2 THEN cell
  ELSE
    LET cell_type == cell.v[1]
        cell_value == cell.v[2]
    IN IF CodeIs(cell_type, "1") THEN PyNone
       ELSE IF CodeIs(cell_type, "6") THEN
         IF ~Iterable(cell_value) THEN PyRaised
         ELSE
           LET items == Items(cell_value)
               out == [i \in DOMAIN items |->
                         IF IsList(items[i]) THEN ParseCellValue(items[i])
                         ELSE items[i]]
           IN IF \E i \in DOMAIN out : out[i] = PyRaised THEN PyRaised
              ELSE PyList(out)
       ELSE IF CodeIs(cell_type, "7") THEN
         IF IsList(cell_value) /\ Len(cell_value.v) >= 5 THEN cell_value.v[5]
         ELSE cell_value
       ELSE IF CodeIs(cell_type, "8") THEN
         IF IsList(cell_value) /\ Len(cell_value.v) >= 3 THEN cell_value.v[3]
         ELSE cell_value
       ELSE cell_value

\* repr(x) and str(x)
RECURSIVE Repr(_)
RECURSIVE ReprItems(_, _)
ReprItems(v, i) ==
  IF i > Len(v) THEN ""
  ELSE (IF i > 1 THEN ", " ELSE "") \o Repr(v[i]) \o ReprItems(v, i + 1)

Repr(x) ==
  CASE x.k = "none" -> "None"
    [] x.k = "str" -> "'" \o x.s \o "'"
    [] x.k = "dict" -> IF x.s = "" THEN "{}" ELSE "{'" \o x.s \o "': 1}"
    [] x.k = "list" -> "[" \o ReprItems(x.v, 1) \o "]"
    [] OTHER -> x.s

StrOf(x) == IF x.k = "str" THEN x.s ELSE Repr(x)

\* line 172: the column names
HeaderNames(headers_raw) ==
  [i \in DOMAIN headers_raw.v |->
     LET h == headers_raw.v[i]
     IN IF IsList(h) /\ Len(h.v) > 1 THEN h.v[2] ELSE PyStr(StrOf(h))]

\* a list or a dict is no dict key
Hashable(x) == x.k \notin {"list", "dict"}

\* obj[key] = value
DictPut(obj, key, value) ==
  {e \in obj : e.key # key} \cup {[key |-> key, value |-> value]}

\* lines 179-186: the cells of one row, from the idx-th on
RECURSIVE ParseRow(_, _, _, _)
ParseRow(headers, row, idx, obj) ==
  IF idx > Len(row.v) THEN [raised |-> FALSE, obj |-> obj]
  ELSE IF idx > Len(headers) THEN ParseRow(headers, row, idx + 1, obj)
  ELSE
    LET cell == row.v[idx]
        value == IF IsList(cell) /\ Len(cell.v) >= 2 THEN ParseCellValue(cell)
                 ELSE cell
    IN IF value = PyRaised \/ ~Hashable(headers[idx])
       THEN [raised |-> TRUE, obj |-> {}]
       ELSE ParseRow(headers, row, idx + 1,
                     DictPut(obj, headers[idx], value))

\* lines 175-187: the rows from the i-th on
RECURSIVE ParseRows(_, _, _, _)
ParseRows(headers, rows_raw, i, parsed) ==
  IF i > Len(rows_raw.v) THEN [raised |-> FALSE, rows |-> parsed]
  ELSE IF ~IsList(rows_raw.v[i]) THEN ParseRows(headers, rows_raw, i + 1, parsed)
  ELSE
    LET r == ParseRow(headers, rows_raw.v[i], 1, {})
    IN IF r.raised THEN [raised |-> TRUE, rows |-> <<>>]
       ELSE ParseRows(headers, rows_raw, i + 1, Append(parsed, r.obj))

ParseResult(result) ==
  IF ~Truthy(result) \/ ~IsList(result) \/ Len(result.v) < 2 THEN NoParsed
  ELSE
    LET headers_raw == result.v[1]
        rows_raw == result.v[2]
    IN IF ~IsList(headers_raw) \/ ~IsList(rows_raw) THEN NoParsed
       ELSE ParseRows(HeaderNames(headers_raw), rows_raw, 1, <<>>)

\* ---- what the store sends ----
\* An edge is (id, type, src, dest, properties), a node (id, labels,
\* properties), a path (nodes, edges).
SentEdge ==
  PyValue("edge", "", <<PyInt("7"), PyInt("0"), PyInt("1"), PyInt("2"),
                        PyDict("w")>>)
SentNode == PyValue("node", "", <<PyInt("1"), PyList(<<PyInt("0")>>),
                                  PyDict("id")>>)
SentPath == PyValue("path", "", <<PyList(<<PyInt("1")>>), PyList(<<>>)>>)
SentScalars ==
  {PyNone, PyStr("a"), PyInt("7"), PyBool("True"), PyFloat("1.5")}
SentFlat == SentScalars \cup {SentEdge, SentNode, SentPath}
\* the items of an array: a value or an array of mixed types
SentItems == SentFlat \cup {PyList(<<>>), PyList(<<PyStr("a"), PyInt("7")>>)}
SentValues ==
  SentFlat \cup {PyList(v) : v \in SeqsUpTo(SentItems, MaxArrayLen)}

\* the type codes of lines 199-201
TypeCode(x) ==
  CASE x.k = "none" -> "1"
    [] x.k = "str" -> "2"
    [] x.k = "int" -> "3"
    [] x.k = "bool" -> "4"
    [] x.k = "float" -> "5"
    [] x.k = "list" -> "6"
    [] x.k = "edge" -> "7"
    [] x.k = "node" -> "8"
    [] x.k = "path" -> "9"

\* the cell [type_code, value] of a value
RECURSIVE Encode(_)
Encode(x) ==
  PyList(<<PyInt(TypeCode(x)),
           IF x.k = "list" THEN PyList([i \in DOMAIN x.v |-> Encode(x.v[i])])
           ELSE IF x.k \in {"edge", "node", "path"} THEN PyList(x.v)
           ELSE x>>)

Header(name) == PyList(<<PyInt("1"), PyStr(name)>>)
Headers == PyList(<<Header("x"), Header("y")>>)
Statistics == PyList(<<PyStr("s")>>)
Envelope(headers, rows) == PyList(<<headers, PyList(rows), Statistics>>)
OneRow(cell) == <<PyList(<<cell, Encode(PyInt("7"))>>)>>

\* Responses that are not as lines 158-160 say, with the value the odd cell
\* holds: kind names what is odd.
OddCell(kind, cell, raw) ==
  [kind |-> kind, resp |-> Envelope(Headers, OneRow(cell)),
   rows |-> <<<<raw, PyInt("7")>>>>]

ShortEdge == PyList(<<PyInt("7"), PyInt("0"), PyInt("1"), PyInt("2")>>)
ShortNode == PyList(<<PyInt("1"), PyList(<<PyInt("0")>>)>>)

OddCells ==
  {OddCell("cell", c, c) :
     c \in {PyStr("a"), PyNone, PyInt("7"), PyList(<<>>),
            PyList(<<PyInt("2")>>), PyList(<<PyInt("6")>>)}}
  \cup {OddCell("edge", PyList(<<PyInt("7"), v>>), v) :
          v \in {ShortEdge, PyList(<<>>), PyStr("a"), PyNone}}
  \cup {OddCell("node", PyList(<<PyInt("8"), v>>), v) :
          v \in {ShortNode, PyList(<<>>), PyStr("a"), PyNone}}
  \cup {OddCell("array", PyList(<<PyInt("6"), v>>), v) :
          v \in {PyInt("7"), PyNone, PyStr("a"), PyStr(""), PyBool("True"),
                 PyFloat("1.5"), PyDict("w")}}
  \cup {OddCell("item", PyList(<<PyInt("6"), PyList(<<c>>)>>), PyList(<<c>>)) :
          c \in {PyList(<<>>), PyList(<<PyInt("2")>>)}}
  \cup {OddCell("item", PyList(<<PyInt("6"), PyList(<<c>>)>>), PyList(<<v>>)) :
          c \in {PyList(<<PyInt("6"), PyInt("7")>>)}, v \in {PyInt("7")}}

OddRows ==
  {[kind |-> "row",
    resp |-> Envelope(Headers, <<r>> \o OneRow(Encode(PyStr("a")))),
    rows |-> <<<<PyStr("a"), PyInt("7")>>>>] :
     r \in {PyStr("a"), PyNone, PyInt("7"), PyDict("w")}}

OddEnvelopes ==
  {[kind |-> "envelope", resp |-> e, rows |-> <<>>] :
     e \in {PyNone, PyStr("a"), PyInt("0"), PyInt("7"), PyList(<<>>),
            PyList(<<Headers>>), PyDict("w"),
            PyList(<<PyNone, PyList(OneRow(Encode(PyStr("a"))))>>),
            PyList(<<Headers, PyNone>>)}}

OddHeaders ==
  {[kind |-> "header",
    resp |-> Envelope(PyList(<<h, Header("y")>>), OneRow(Encode(PyStr("a")))),
    rows |-> <<<<PyStr("a"), PyInt("7")>>>>] :
     h \in {PyStr("x"), PyNone, PyList(<<PyInt("1")>>),
            PyList(<<PyInt("1"), PyList(<<>>)>>), Header("y")}}

OddResponses == OddCells \cup OddRows \cup OddEnvelopes \cup OddHeaders

\* ---- specification of _parse_result ----
InitDecode ==
  /\ AuxIdle
  /\ ClientIdle /\ GraphIdle /\ CoordIdle /\ BuildIdle
  /\ dparsed = NoParsed /\ dpc = "input"
  /\ \/ \E a \in SentValues, b \in {PyInt("7"), SentNode}, n \in 0..1 :
          /\ dsent = [kind |-> "encoded",
                      rows |-> IF n = 0 THEN <<>> ELSE <<<<a, b>>>>]
          /\ dresp = Envelope(Headers,
                       IF n = 0 THEN <<>>
                       ELSE <<PyList(<<Encode(a), Encode(b)>>)>>)
     \/ \E m \in OddResponses :
          /\ dsent = [kind |-> m.kind, rows |-> m.rows]
          /\ dresp = m.resp

\* _parse_result(result)
ParseResultCall ==
  /\ dpc = "input"
  /\ dparsed' = ParseResult(dresp)
  /\ dpc' = "parsed"
  /\ UNCHANGED <<dresp, dsent, queryVars, auxVars, clientVars, graphVars,
                 coordVars>>

NextDecode == ParseResultCall

SpecDecode == InitDecode /\ [][NextDecode]_vars

(***************************************************************************)
(* Claims about response decoding.                                         *)
(***************************************************************************)
\* What the type table makes of a value: a scalar is itself, an array the
\* list of what it makes of the items, an edge its 5th element, a node its
\* 3rd, a path the tuple as sent.
RECURSIVE TableValue(_)
TableValue(x) ==
  CASE x.k = "list" -> PyList([i \in DOMAIN x.v |-> TableValue(x.v[i])])
    [] x.k = "edge" -> x.v[5]
    [] x.k = "node" -> x.v[3]
    [] x.k = "path" -> PyList(x.v)
    [] OTHER -> x

\* the row object that holds values under the names x and y
RowOf(values) ==
  {[key |-> PyStr("x"), value |-> values[1]],
   [key |-> PyStr("y"), value |-> values[2]]}

\* C16: when the store encodes rows of values as cells [type_code, value]
\* under the headers x and y, _parse_result returns, for each row, the
\* object that holds under x and y what the type table makes of the row's
\* first and second value: null, a scalar as it is, an array item by item
\* (arrays of mixed types in arrays included), the 5th element of an edge,
\* the 3rd of a node, a path undecoded.
C16_DecodesByTypeTable ==
  (dpc = "parsed" /\ dsent.kind = "encoded") =>
    /\ ~dparsed.raised
    /\ Len(dparsed.rows) = Len(dsent.rows)
    /\ \A i \in DOMAIN dsent.rows :
         dparsed.rows[i] =
           RowOf([j \in 1..2 |-> TableValue(dsent.rows[i][j])])

\* a nested array of mixed types was decoded next to a node
C16_Witness ==
  /\ dpc = "parsed" /\ dsent.kind = "encoded"
  /\ dsent.rows = <<<<PyList(<<PyList(<<PyStr("a"), PyInt("7")>>), SentEdge>>),
                      SentNode>>>>
  /\ dparsed.rows = <<RowOf(<<PyList(<<PyList(<<PyStr("a"), PyInt("7")>>),
                                           PyDict("w")>>),
                                  PyDict("id")>>)>>

\* C17: _parse_result never raises on a response that is not as the format
\* says; an odd envelope gives the empty result, and a cell that is no
\* 2-element list, an EDGE of fewer than 5 elements, a NODE of fewer than 3
\* and an ARRAY whose value is no list are held raw under their column.
C17_MalformedNeverRaises ==
  (dpc = "parsed" /\ dsent.kind \notin {"none", "encoded"}) =>
    /\ ~dparsed.raised
    /\ dsent.kind = "envelope" => dparsed.rows = <<>>
    /\ dsent.kind \in {"cell", "edge", "node", "array", "item"} =>
         dparsed.rows = <<RowOf(dsent.rows[1])>>

(***************************************************************************)
(* Writes to the graph (SpecGraph): a constructed, connected GraphService; *)
(* every call is one query, delete_prd is two, and calls of other requests *)
(* interleave between them. ok is the outcome of execute_command: when it  *)
(* fails, _query raises (124-126) and the graph is as before.              *)
(***************************************************************************)
RelInputs == {"DEPENDS_ON", "OWNS"}
RelPairs == {<<"c1", "c2">>}
PropInputs == {{}, {<<"strength", "0.8">>}}

ChunkIdsOfPrd(ns, es, prd) == {c.id : c \in ChunksOfPrd(ns, es, prd)}

\* what a step of another call does to the record of the delete_prd call:
\* between its two queries, note the chunks linked to its PRD and whether
\* the graph was written; the record of a returned call lasts one step.
Observe(d, ns, es, wrote) ==
  IF d.pc = "between"
  THEN [d EXCEPT !.belonged = @ \cup ChunkIdsOfPrd(ns, es, d.prd),
                 !.interleaved = @ \/ wrote]
  ELSE IdleDel

InitGraph ==
  /\ AuxIdle
  /\ QueryIdle /\ GraphIdle /\ CoordIdle
  /\ client = TRUE /\ available = TRUE /\ moduleLoaded = TRUE
  /\ conn = [ctor |-> "ok", open |-> "ok", ping |-> "ok", probe |-> "ok"]
  /\ ret = NoRet

\* create_prd_node(prd_id, prd_data)
CreatePrdNode(prd, data, ok) ==
  /\ nodes' = IF QueryOpen /\ ok THEN MergeNode(nodes, "PRD", prd, data)
              ELSE nodes
  /\ del' = Observe(del, nodes', edges, QueryOpen /\ ok)
  /\ UNCHANGED <<edges, sentRel, upserted, queryVars, decodeVars, auxVars, clientVars,
                 coordVars>>

\* create_chunk_node(chunk_id, chunk_data)
CreateChunkNode(c, data, ok) ==
  /\ nodes' = IF QueryOpen /\ ok THEN MergeNode(nodes, "Chunk", c, data)
              ELSE nodes
  /\ upserted' =
       IF QueryOpen /\ ok
       THEN [upserted EXCEPT ![c] =
               [data |-> data,
                overwrote |-> \E n \in Matching(nodes, "Chunk", c) :
                                n.p # data]]
       ELSE upserted
  /\ del' = Observe(del, nodes', edges, QueryOpen /\ ok)
  /\ UNCHANGED <<edges, sentRel, queryVars, decodeVars, auxVars, clientVars, coordVars>>

\* link_chunk_to_prd(chunk_id, prd_id)
LinkChunkToPrd(c, prd, ok) ==
  /\ edges' = IF QueryOpen /\ ok
              THEN MergeEdge(nodes, edges, "Chunk", c, "PRD", prd,
                             "BELONGS_TO", {})
              ELSE edges
  /\ del' = Observe(del, nodes, edges', QueryOpen /\ ok)
  /\ UNCHANGED <<nodes, sentRel, upserted, queryVars, decodeVars, auxVars, clientVars,
                 coordVars>>

\* create_relationship(source_id, target_id, rel_type, properties):
\* rel_type goes into the query text as it came (312-319)
CreateRelationship(src, dst, relType, props, ok) ==
  /\ edges' = IF QueryOpen /\ ok
              THEN MergeEdge(nodes, edges, "Chunk", src, "Chunk", dst,
                             relType, props)
              ELSE edges
  /\ sentRel' = IF QueryOpen THEN sentRel \cup {relType} ELSE sentRel
  /\ del' = Observe(del, nodes, edges', QueryOpen /\ ok)
  /\ UNCHANGED <<nodes, upserted, queryVars, decodeVars, auxVars, clientVars, coordVars>>

\* delete_prd(prd_id), its first query (736-739)
DeletePrdChunks(prd, ok) ==
  /\ del.pc # "between"
  /\ QueryOpen
  /\ IF ok
     THEN LET after == DeleteChunksOfPrd(nodes, edges, prd)
          IN /\ nodes' = after.nodes
             /\ edges' = after.edges
             /\ del' = [pc |-> "between", prd |-> prd,
                        belonged |-> ChunkIdsOfPrd(nodes, edges, prd),
                        interleaved |-> FALSE,
                        detached |-> Cardinality(edges \ after.edges)]
     ELSE /\ del' = IdleDel
          /\ UNCHANGED <<nodes, edges>>
  /\ UNCHANGED <<sentRel, upserted, queryVars, decodeVars, auxVars, clientVars, coordVars>>

\* delete_prd(prd_id), its second query and its return (741-746)
DeletePrdNodeStep(ok) ==
  /\ del.pc = "between"
  /\ IF ok
     THEN LET after == DeletePrdNode(nodes, edges, del.prd)
          IN /\ nodes' = after.nodes
             /\ edges' = after.edges
             /\ del' = [del EXCEPT !.pc = "done"]
     ELSE /\ del' = IdleDel
          /\ UNCHANGED <<nodes, edges>>
  /\ UNCHANGED <<sentRel, upserted, queryVars, decodeVars, auxVars, clientVars, coordVars>>

NextGraph ==
  \/ \E prd \in PrdIds, data \in PrdData, ok \in BOOLEAN :
       CreatePrdNode(prd, data, ok)
  \/ \E c \in ChunkIds, data \in ChunkData, ok \in BOOLEAN :
       CreateChunkNode(c, data, ok)
  \/ \E c \in ChunkIds, prd \in PrdIds, ok \in BOOLEAN :
       LinkChunkToPrd(c, prd, ok)
  \/ \E pr \in RelPairs, relType \in RelInputs, props \in PropInputs,
        ok \in BOOLEAN :
       CreateRelationship(pr[1], pr[2], relType, props, ok)
  \/ \E prd \in PrdIds, ok \in BOOLEAN : DeletePrdChunks(prd, ok)
  \/ \E ok \in BOOLEAN : DeletePrdNodeStep(ok)

SpecGraph == InitGraph /\ [][NextGraph]_vars

(***************************************************************************)
(* Claims about the writes to the graph.                                   *)
(***************************************************************************)
\* the relationship types the data model knows
AllowedRelTypes ==
  {"BELONGS_TO", "DEPENDS_ON", "REFERENCES", "IMPLEMENTS", "TESTS",
   "DOCUMENTS", "DESIGNS", "PARENT_OF"}

\* C1: create_relationship checks rel_type against the allow-list before it
\* inlines it: no query sent to the store carries a relationship type that
\* is not in the list.
C1_OnlyAllowedTypesSent == sentRel \subseteq AllowedRelTypes

\* nothing of the deleted PRD is left: no PRD node with its id, none of the
\* chunks that belonged to it, no edge at any of them
NothingLeft(prd, chunks) ==
  /\ Matching(nodes, "PRD", prd) = {}
  /\ \A c \in chunks : Matching(nodes, "Chunk", c) = {}
  /\ \A e \in edges : /\ e.src[2] \notin chunks \cup {prd}
                       /\ e.dst[2] \notin chunks \cup {prd}

\* C9 as claimed: when delete_prd(p) has returned, nothing of p is left,
\* also for the chunks created and linked to p between its two queries.
C9_DeleteLeavesNothing ==
  del.pc = "done" => NothingLeft(del.prd, del.belonged)

\* C9 as amended: when no other call wrote to the graph between the two
\* queries of delete_prd(p), then after the first query no chunk of p and
\* no edge at one is left (the PRD node is still to be deleted), and when
\* the call has returned nothing of p is left.
C9_DeleteLeavesNothingUninterleaved ==
  /\ (del.pc = "between" /\ ~del.interleaved) =>
        /\ ChunksOfPrd(nodes, edges, del.prd) = {}
        /\ \A c \in del.belonged : Matching(nodes, "Chunk", c) = {}
        /\ \A e \in edges : e.src[2] \notin del.belonged
                             /\ e.dst[2] \notin del.belonged
  /\ (del.pc = "done" /\ ~del.interleaved) =>
        NothingLeft(del.prd, del.belonged)

\* C9 witness: delete_prd has returned for a PRD that had two chunks and
\* three edges at them (two BELONGS_TO and one between the chunks).
C9_Witness ==
  /\ del.pc = "done" /\ ~del.interleaved
  /\ del.belonged = {"c1", "c2"}
  /\ del.detached >= 3

\* C10: there is at most one node per id, and a Chunk node carries the
\* type, text, priority and context of the latest completed
\* create_chunk_node for its id.
C10_OneNodePerIdLatestData ==
  /\ \A n1, n2 \in nodes : n1.id = n2.id => n1 = n2
  /\ \A n \in nodes : n.label = "Chunk" => n.p = upserted[n.id].data

\* C10 witness: create_chunk_node was repeated for a chunk with changed
\* properties, and the chunk's node carries the new ones.
C10_Witness ==
  \E n \in nodes :
     /\ n.label = "Chunk" /\ upserted[n.id].overwrote
     /\ n.p = upserted[n.id].data /\ n.p.text = "t2"

(***************************************************************************)
(* One GraphService object used by one caller (Spec): construction, then   *)
(* calls one after the other, then close. The environment decides whether  *)
(* the server has the graph module, what the graph holds, and which        *)
(* commands fail.                                                          *)
(***************************************************************************)
\* deepest traversal asked for
MaxDepth == 2
\* most commands of one call the environment fails
MaxFails == 1

\* the sets of at most m of the commands 1..k
RECURSIVE SetsUpTo(_, _)
SetsUpTo(k, m) ==
  IF m = 0 THEN {{}}
  ELSE LET S == SetsUpTo(k, m - 1)
       IN S \cup {F \cup {i} : F \in S, i \in 1..k}

FailSets(k) == SetsUpTo(k, MaxFails)

\* _ensure_indexes 66-71, in its order
IndexOrder == <<"Chunk.id", "Chunk.type", "PRD.id">>
IndexOutcomes == {"ok", "already exists", "already indexed", "error"}
IndexSwallowed == {"already exists", "already indexed"}

\* A plausible slip: _safe_create_index swallows every error.
IndexErrorRaisedNever(outcome) == FALSE

\* _safe_create_index 80-86: "already exists" and "already indexed" are
\* swallowed, any other error is raised again
IndexErrorRaised(outcome) == outcome \notin {"ok"} \cup IndexSwallowed

\* _ensure_indexes 65-74: the indexes whose creation is attempted, each
\* with its outcome; the first raised error leaves the try block (and is
\* logged as a warning)
RECURSIVE IndexesTried(_, _)
IndexesTried(i, outcomes) ==
  IF i > Len(IndexOrder) THEN <<>>
  ELSE IF IndexErrorRaised(outcomes[i])
       THEN <<[index |-> IndexOrder[i], outcome |-> outcomes[i]]>>
       ELSE <<[index |-> IndexOrder[i], outcome |-> outcomes[i]]>>
              \o IndexesTried(i + 1, outcomes)

\* __init__ 31-33: _ensure_indexes is called when _connect returned and
\* available is set
EnsuresIndexes(raises, avail) == ~raises /\ avail

\* A plausible slip: every error of the probe is taken for a missing module.
ProbeRaisesNever(probe) == FALSE

\* _connect 46-51: an error of GRAPH.LIST without "unknown command" in its
\* message is raised again
ProbeRaises(probe) == probe = "error"

\* _connect 37-54: from_url, ping, probe; any exception leaves __init__
ConnectRaises(open, ping, probe) ==
  open = "fail" \/ ping = "fail" \/ (ping = "ok" /\ ProbeRaises(probe))

\* the graph a server with the module may hold when the service starts
SampleNodes ==
  { [label |-> "PRD", id |-> "p1", copy |-> 1,
     p |-> [name |-> "n1", description |-> "d1"]],
    [label |-> "Chunk", id |-> "c1", copy |-> 1,
     p |-> [type |-> "requirement", text |-> "t1", priority |-> "high",
            context |-> "x1"]],
    [label |-> "Chunk", id |-> "c2", copy |-> 1,
     p |-> [type |-> "feature", text |-> "t2", priority |-> "medium",
            context |-> "x2"]],
    [label |-> "Chunk", id |-> "k1", copy |-> 1,
     p |-> [type |-> "test_case", text |-> "t3", priority |-> "high",
            context |-> "x3"]],
    [label |-> "Chunk", id |-> "k2", copy |-> 1,
     p |-> [type |-> "documentation", text |-> "t4", priority |-> "low",
            context |-> "x4"]],
    [label |-> "Chunk", id |-> "k3", copy |-> 1,
     p |-> [type |-> "design_spec", text |-> "t5", priority |-> "low",
            context |-> "x5"]],
    [label |-> "Symbol", id |-> "s1", copy |-> 1,
     p |-> [qualified_name |-> "s1", kind |-> "function", file |-> "f1"]] }

SampleEdge(srcLabel, src, type, dstLabel, dst) ==
  [src |-> <<srcLabel, src, 1>>, dst |-> <<dstLabel, dst, 1>>,
   type |-> type, copy |-> 1, p |-> {}]

SampleEdges ==
  { SampleEdge("Chunk", "c1", "BELONGS_TO", "PRD", "p1"),
    SampleEdge("Chunk", "c2", "BELONGS_TO", "PRD", "p1"),
    SampleEdge("Chunk", "k1", "BELONGS_TO", "PRD", "p1"),
    SampleEdge("Chunk", "c1", "DEPENDS_ON", "Chunk", "c2"),
    SampleEdge("Chunk", "c2", "DEPENDS_ON", "Chunk", "c1"),
    SampleEdge("Chunk", "k1", "TESTS", "Chunk", "c1"),
    SampleEdge("Chunk", "k2", "DOCUMENTS", "Chunk", "c1"),
    SampleEdge("Chunk", "k3", "DESIGNS", "Chunk", "c1"),
    SampleEdge("Symbol", "s1", "IMPLEMENTS", "Chunk", "c1") }

Init ==
  /\ AuxIdle
  /\ QueryIdle /\ CoordIdle
  /\ client = FALSE /\ available = FALSE /\ conn = NoConn /\ ret = NoRet
  /\ moduleLoaded \in BOOLEAN
  /\ \/ nodes = {} /\ edges = {}
     \/ moduleLoaded /\ nodes = SampleNodes /\ edges = SampleEdges
  /\ sentRel = {} /\ del = IdleDel
  /\ upserted = [c \in ChunkIds |-> [data |-> NoData, overwrote |-> FALSE]]

\* GraphService.__init__ 18-33 with _connect and _ensure_indexes
Construct(open, ping, probe, outcomes) ==
  /\ conn.ctor = "none"
  /\ ping = "-" <=> open = "fail"
  /\ probe = "-" <=> ping # "ok"
  /\ probe = "ok" => moduleLoaded
  /\ probe = "unknown command" => ~moduleLoaded
  /\ client' = (open = "ok")
  /\ available' = (probe = "ok")
  /\ conn' = [ctor |-> IF ConnectRaises(open, ping, probe) THEN "raised"
                       ELSE "ok",
              open |-> open, ping |-> ping, probe |-> probe]
  /\ LET tried == IF EnsuresIndexes(ConnectRaises(open, ping, probe),
                                    available')
                  THEN IndexesTried(1, outcomes) ELSE <<>>
     IN ret' = [op |-> "__init__", arg |-> "-", open |-> FALSE,
                raised |-> ConnectRaises(open, ping, probe),
                sent |-> Len(tried), fails |-> {}, value |-> tried]
  /\ UNCHANGED <<moduleLoaded, queryVars, decodeVars, auxVars, graphVars, coordVars>>

\* close 56-61
Close ==
  /\ conn.ctor = "ok"
  /\ client
  /\ client' = FALSE
  /\ UNCHANGED <<available, conn, ret, moduleLoaded, queryVars, decodeVars, auxVars, graphVars,
                 coordVars>>

(***************************************************************************)
(* What the read queries match.                                            *)
(***************************************************************************)
Min(S) == CHOOSE x \in S : \A y \in S : x <= y
NodeAt(ns, nid) == CHOOSE n \in ns : Nid(n) = nid

\* get_all_prds 651-655, get_prd_details 675-680
TestTypes ==
  {"test_case", "unit_test_spec", "integration_test_spec",
   "acceptance_criteria"}
ArtifactTypes ==
  TestTypes \cup
  {"documentation", "user_manual", "api_doc", "technical_spec",
   "release_note", "design_spec", "screen_flow", "wireframe"}
\* get_test_coverage 417
ReqClass == {"requirement", "feature", "constraint"}

\* the edges of a type that leave (outgoing) or enter (incoming) a node
Step(es, type, dir, at) ==
  {e \in es : e.type = type /\
              (IF dir = "outgoing" THEN e.src ELSE e.dst) = at}
EndOf(path, dir) ==
  IF dir = "outgoing" THEN path[Len(path)].dst ELSE path[Len(path)].src

\* -[:type*1..n]->: the paths of P and their extensions by up to d more
\* edges; a path never takes an edge twice
RECURSIVE Trails(_, _, _, _, _)
Trails(es, type, dir, P, d) ==
  IF d = 0 \/ P = {} THEN P
  ELSE P \cup Trails(es, type, dir,
         UNION {{Append(path, e) :
                   e \in {x \in Step(es, type, dir, EndOf(path, dir)) :
                            x \notin Range(path)}} : path \in P},
         d - 1)

\* A plausible slip: the upper bound of the path length is left out
\* ([:type*1..]).
TrailsFromUnbounded(ns, es, type, dir, chunk, depth) ==
  LET first == {<<e>> : e \in UNION {Step(es, type, dir, Nid(c)) :
                                       c \in Matching(ns, "Chunk", chunk)}}
  IN {path \in Trails(es, type, dir, first, Cardinality(es)) :
        EndOf(path, dir)[1] = "Chunk"}

\* MATCH (c:Chunk {id: $chunk_id})-[:type*1..depth]->(dep:Chunk), or the
\* same with the arrow reversed: the matching paths
TrailsFrom(ns, es, type, dir, chunk, depth) ==
  LET first == {<<e>> : e \in UNION {Step(es, type, dir, Nid(c)) :
                                       c \in Matching(ns, "Chunk", chunk)}}
  IN {path \in Trails(es, type, dir, first, depth - 1) :
        EndOf(path, dir)[1] = "Chunk"}

\* RETURN dep.id as chunk_id, dep.type, dep.text, dep.priority (568-571)
DepRow(n) ==
  [chunk_id |-> n.id, type |-> n.p.type, text |-> n.p.text,
   priority |-> n.p.priority]
\* RETURN x.id as id, x.type, x.text, x.priority (525, 532, 696)
Row4(n) ==
  [id |-> n.id, type |-> n.p.type, text |-> n.p.text,
   priority |-> n.p.priority]
\* RETURN x.id, x.type, x.text, x.priority, x.context (357-361, 515-516)
Row5(n) ==
  [id |-> n.id, type |-> n.p.type, text |-> n.p.text,
   priority |-> n.p.priority, context |-> n.p.context]

\* get_dependencies 565-582: one row per matching path (no DISTINCT)
DependencyMatches(ns, es, chunk, depth, dir) ==
  {[via |-> path, row |-> DepRow(NodeAt(ns, EndOf(path, dir)))] :
     path \in TrailsFrom(ns, es, "DEPENDS_ON", dir, chunk, depth)}

\* get_full_traceability 523-534: RETURN DISTINCT
DistinctDependencies(ns, es, chunk, depth, dir) ==
  {Row4(NodeAt(ns, EndOf(path, dir))) :
     path \in TrailsFrom(ns, es, "DEPENDS_ON", dir, chunk, depth)}

\* MATCH (x:Chunk)-[:type]->(req:Chunk {id: $chunk_id}) (356, 368, 380)
ArtifactRows(ns, es, type, chunk) ==
  {Row5(NodeAt(ns, e.src)) :
     e \in {x \in es : /\ x.type = type /\ x.src[1] = "Chunk"
                        /\ \E r \in Matching(ns, "Chunk", chunk) :
                              x.dst = Nid(r)}}

\* MATCH (sym:Symbol)-[:IMPLEMENTS]->(c:Chunk {id: $chunk_id}) (547-550)
ImplementationRows(ns, es, chunk) ==
  {NodeAt(ns, e.src).p :
     e \in {x \in es : /\ x.type = "IMPLEMENTS" /\ x.src[1] = "Symbol"
                        /\ \E r \in Matching(ns, "Chunk", chunk) :
                              x.dst = Nid(r)}}

\* MATCH (c:Chunk {id: $chunk_id}) RETURN ... (514-516)
ChunkRows(ns, chunk) == {Row5(n) : n \in Matching(ns, "Chunk", chunk)}

\* A plausible slip: count(req) where count(DISTINCT req) is meant.
CoverageCountsPerEdge(ns, es, prd, type) ==
  LET mine == ChunksOfPrd(ns, es, prd)
      reqs == {c \in mine : c.p.type \in ReqClass}
      hits(c) == {e \in es : e.type = type /\ e.dst = Nid(c)
                             /\ e.src[1] = "Chunk"}
  IN [total |-> Cardinality(reqs),
      covered |-> Cardinality(UNION {hits(c) : c \in reqs}),
      artifacts |-> Cardinality(UNION {hits(c) : c \in mine})]

\* the three counts of get_test_coverage 415-438 (type TESTS) and
\* get_documentation_coverage 458-481 (type DOCUMENTS)
CoverageCounts(ns, es, prd, type) ==
  LET mine == ChunksOfPrd(ns, es, prd)
      reqs == {c \in mine : c.p.type \in ReqClass}
      hits(c) == {e \in es : e.type = type /\ e.dst = Nid(c)
                             /\ e.src[1] = "Chunk"}
  IN [total |-> Cardinality(reqs),
      covered |-> Cardinality({c \in reqs : hits(c) # {}}),
      artifacts |-> Cardinality(UNION {hits(c) : c \in mine})]

\* round(covered / total * 100, 2) if total > 0 else 0, in hundredths of a
\* percent (440, 448)
RoundedPercent(covered, total) ==
  LET q == (10000 * covered) \div total
      r == (10000 * covered) % total
  IN IF total <= 0 THEN 0
     ELSE IF 2 * r > total THEN q + 1
     ELSE IF 2 * r < total THEN q
     ELSE q + (q % 2)     \* round(): a tie goes to the even neighbour

\* get_all_prds 656-669: one row per PRD with its two counts
PrdRows(ns, es) ==
  {[id |-> q.id, name |-> q.p.name, description |-> q.p.description,
    chunk_count |->
      Cardinality({c \in ChunksOfPrd(ns, es, q.id) :
                     c.p.type \notin ArtifactTypes}),
    test_count |->
      Cardinality({c \in ChunksOfPrd(ns, es, q.id) :
                     c.p.type \in TestTypes})] :
     q \in {n \in ns : n.label = "PRD"}}

\* get_graph_stats 718-725
StatsRows(ns, es) ==
  {[total_chunks |-> Cardinality({n \in ns : n.label = "Chunk"}),
    dependency_count |-> Cardinality({e \in es : e.type = "DEPENDS_ON"}),
    reference_count |-> Cardinality({e \in es : e.type = "REFERENCES"})]}

(***************************************************************************)
(* _query as a call sees it. A call makes its queries 1..k in order; the   *)
(* environment fails those of fails, and a server without the module fails *)
(* every graph command ("unknown command").                                *)
(***************************************************************************)
\* A plausible slip: the two guards of _query are missing.
QuerySentAlways == TRUE

\* _query 99-105: with no client or available unset, nothing is sent
QuerySent == QueryOpen

\* _query 115-126: the first failing command raises
Attempt(k, fails) ==
  LET bad == {i \in 1..k : i \in fails \/ ~moduleLoaded}
  IN [raised |-> QuerySent /\ bad # {},
      sent |-> IF ~QuerySent THEN 0
               ELSE IF bad # {} THEN Min(bad) ELSE k]

\* _query 101, 105, 123: [] when nothing is sent, else the parsed rows
Rows(rows) == IF QuerySent THEN rows ELSE {}

\* results[0] of a one-row count query, or the default (421, 430, 438)
CountOr0(rows) == IF rows = {} THEN 0 ELSE (CHOOSE r \in rows : TRUE).n

Returned(op, arg, k, fails, value) ==
  [op |-> op, arg |-> arg, open |-> QueryOpen,
   raised |-> Attempt(k, fails).raised, sent |-> Attempt(k, fails).sent,
   fails |-> fails,
   value |-> IF Attempt(k, fails).raised THEN "-" ELSE value]

(***************************************************************************)
(* The calls of the sequential caller.                                     *)
(***************************************************************************)
CallChunkIds == {"c1", "c2", "zz"}
CallPrdIds == {"p1", "zz"}
Directions == {"outgoing", "incoming"}

Reads == UNCHANGED <<client, available, conn, moduleLoaded, queryVars, decodeVars, auxVars,
                     graphVars, coordVars>>

\* get_dependencies(chunk_id, depth, direction) 560-582
GetDependencies(chunk, depth, dir, fails) ==
  /\ conn.ctor = "ok"
  /\ ret' = Returned("get_dependencies", <<chunk, depth, dir>>, 1, fails,
                     Rows(DependencyMatches(nodes, edges, chunk, depth, dir)))
  /\ Reads

\* get_tests_for_requirement 353-363, get_documentation_for_requirement
\* 365-375, get_designs_for_requirement 377-387
ArtifactOps ==
  [TESTS |-> "get_tests_for_requirement",
   DOCUMENTS |-> "get_documentation_for_requirement",
   DESIGNS |-> "get_designs_for_requirement"]

GetArtifactsForRequirement(type, chunk, fails) ==
  /\ conn.ctor = "ok"
  /\ ret' = Returned(ArtifactOps[type], chunk, 1, fails,
                     Rows(ArtifactRows(nodes, edges, type, chunk)))
  /\ Reads

\* the dict get_test_coverage 408-449 / get_documentation_coverage 451-492
\* returns, from what its three queries returned
CoverageValue(prd, type) ==
  LET counts == CoverageCounts(nodes, edges, prd, type)
      total == CountOr0(Rows({[n |-> counts.total]}))
      covered == CountOr0(Rows({[n |-> counts.covered]}))
      artifacts == CountOr0(Rows({[n |-> counts.artifacts]}))
  IN [prd_id |-> prd, total_requirements |-> total,
      covered_requirements |-> covered,
      uncovered_requirements |-> total - covered,
      total_artifacts |-> artifacts,   \* total_tests (446), total_docs (489)
      coverage_percent |-> RoundedPercent(covered, total)]

GetCoverage(type, prd, fails) ==
  /\ conn.ctor = "ok"
  /\ ret' = Returned(IF type = "TESTS" THEN "get_test_coverage"
                     ELSE "get_documentation_coverage",
                     prd, 3, fails, CoverageValue(prd, type))
  /\ Reads

\* the sections of get_full_traceability, in the order of its queries
\* (518, 527, 534, 537, 540, 543, 552)
Sections ==
  <<"chunk", "dependencies", "dependents", "tests", "documentation",
    "designs", "implementations">>

SectionRows(section, chunk, depth) ==
  CASE section = "chunk" -> ChunkRows(nodes, chunk)
    [] section = "dependencies" ->
         DistinctDependencies(nodes, edges, chunk, depth, "outgoing")
    [] section = "dependents" ->
         DistinctDependencies(nodes, edges, chunk, depth, "incoming")
    [] section = "tests" -> ArtifactRows(nodes, edges, "TESTS", chunk)
    [] section = "documentation" ->
         ArtifactRows(nodes, edges, "DOCUMENTS", chunk)
    [] section = "designs" -> ArtifactRows(nodes, edges, "DESIGNS", chunk)
    [] section = "implementations" ->
         ImplementationRows(nodes, edges, chunk)

\* get_full_traceability(chunk_id, depth) 494-554: the seven queries run
\* one after the other with nothing around them, so the first one that
\* raises ends the call. chunk is a set: empty for None, else the row.
GetFullTraceability(chunk, depth, fails) ==
  /\ conn.ctor = "ok"
  /\ ret' = Returned("get_full_traceability", <<chunk, depth>>, 7, fails,
                     [s \in Range(Sections) |->
                        Rows(SectionRows(s, chunk, depth))])
  /\ Reads

\* get_all_prds 648-670
GetAllPrds(fails) ==
  /\ conn.ctor = "ok"
  /\ ret' = Returned("get_all_prds", "-", 1, fails,
                     Rows(PrdRows(nodes, edges)))
  /\ Reads

\* get_prd_details 682-688: what the first query returned
PrdFound(prd) ==
  Rows({[id |-> q.id, name |-> q.p.name, description |-> q.p.description] :
          q \in Matching(nodes, "PRD", prd)})

\* get_prd_details 690-710: None (the empty set here) when the first query
\* returned nothing, else the PRD with its chunks and tests
PrdDetails(prd) ==
  LET chunks == Rows({Row4(c) : c \in ChunksOfPrd(nodes, edges, prd)})
      requirements == {c \in chunks : c.type \notin ArtifactTypes}
      tests == {c \in chunks : c.type \in TestTypes}
  IN IF PrdFound(prd) = {} THEN {}
     ELSE {[prd |-> CHOOSE r \in PrdFound(prd) : TRUE,
            chunks |-> requirements, tests |-> tests,
            chunk_count |-> Cardinality(requirements),
            test_count |-> Cardinality(tests)]}

\* get_prd_details(prd_id) 672-710: the second query is made only when the
\* first returned a row
GetPrdDetails(prd, fails) ==
  /\ conn.ctor = "ok"
  /\ ret' = Returned("get_prd_details", prd,
                     IF PrdFound(prd) = {} THEN 1 ELSE 2, fails,
                     PrdDetails(prd))
  /\ Reads

\* get_graph_stats 716-727: {} (the empty set here) without a row
GetGraphStats(fails) ==
  /\ conn.ctor = "ok"
  /\ ret' = Returned("get_graph_stats", "-", 1, fails,
                     Rows(StatsRows(nodes, edges)))
  /\ Reads

Writes == UNCHANGED <<client, available, conn, moduleLoaded, queryVars, decodeVars, auxVars,
                      sentRel, upserted, del, coordVars>>

\* create_prd_node 223-236
CreatePrdNodeCall(prd, data, fails) ==
  /\ conn.ctor = "ok"
  /\ ret' = Returned("create_prd_node", prd, 1, fails, "None")
  /\ nodes' = IF QuerySent /\ ~ret'.raised
              THEN MergeNode(nodes, "PRD", prd, data) ELSE nodes
  /\ UNCHANGED edges
  /\ Writes

\* create_chunk_node 242-259
CreateChunkNodeCall(chunk, data, fails) ==
  /\ conn.ctor = "ok"
  /\ ret' = Returned("create_chunk_node", chunk, 1, fails, "None")
  /\ nodes' = IF QuerySent /\ ~ret'.raised
              THEN MergeNode(nodes, "Chunk", chunk, data) ELSE nodes
  /\ UNCHANGED edges
  /\ Writes

\* link_chunk_to_prd 283-291
LinkChunkToPrdCall(chunk, prd, fails) ==
  /\ conn.ctor = "ok"
  /\ ret' = Returned("link_chunk_to_prd", <<chunk, prd>>, 1, fails, "None")
  /\ edges' = IF QuerySent /\ ~ret'.raised
              THEN MergeEdge(nodes, edges, "Chunk", chunk, "PRD", prd,
                             "BELONGS_TO", {})
              ELSE edges
  /\ UNCHANGED nodes
  /\ Writes

\* create_relationship 297-320
CreateRelationshipCall(src, dst, relType, props, fails) ==
  /\ conn.ctor = "ok"
  /\ ret' = Returned("create_relationship", <<src, dst, relType>>, 1, fails,
                     "None")
  /\ edges' = IF QuerySent /\ ~ret'.raised
              THEN MergeEdge(nodes, edges, "Chunk", src, "Chunk", dst,
                             relType, props)
              ELSE edges
  /\ UNCHANGED nodes
  /\ Writes

\* delete_prd 733-746, with no other caller between its two queries
DeletePrdCall(prd, fails) ==
  /\ conn.ctor = "ok"
  /\ ret' = Returned("delete_prd", prd, 2, fails, "True")
  /\ LET first == DeleteChunksOfPrd(nodes, edges, prd)
         second == DeletePrdNode(first.nodes, first.edges, prd)
     IN IF QuerySent /\ ret'.sent = 2 /\ ~ret'.raised
        THEN nodes' = second.nodes /\ edges' = second.edges
        ELSE IF QuerySent /\ ret'.sent = 2
        THEN nodes' = first.nodes /\ edges' = first.edges
        ELSE UNCHANGED <<nodes, edges>>
  /\ Writes

Next ==
  \/ \E open \in {"ok", "fail"}, ping \in {"ok", "fail", "-"},
        probe \in {"ok", "unknown command", "error", "-"},
        outcomes \in [1..3 -> IndexOutcomes] :
       Construct(open, ping, probe, outcomes)
  \/ Close
  \/ \E c \in CallChunkIds, d \in 1..MaxDepth, dir \in Directions,
        fails \in FailSets(1) : GetDependencies(c, d, dir, fails)
  \/ \E type \in DOMAIN ArtifactOps, c \in CallChunkIds,
        fails \in FailSets(1) : GetArtifactsForRequirement(type, c, fails)
  \/ \E type \in {"TESTS", "DOCUMENTS"}, prd \in CallPrdIds,
        fails \in FailSets(3) : GetCoverage(type, prd, fails)
  \/ \E c \in CallChunkIds, d \in 1..MaxDepth, fails \in FailSets(7) :
       GetFullTraceability(c, d, fails)
  \/ \E fails \in FailSets(1) : GetAllPrds(fails)
  \/ \E prd \in CallPrdIds, fails \in FailSets(2) :
       GetPrdDetails(prd, fails)
  \/ \E fails \in FailSets(1) : GetGraphStats(fails)
  \/ \E prd \in {"p1"}, data \in PrdData, fails \in FailSets(1) :
       CreatePrdNodeCall(prd, data, fails)
  \/ \E c \in {"c1"}, data \in ChunkData, fails \in FailSets(1) :
       CreateChunkNodeCall(c, data, fails)
  \/ \E c \in {"c1"}, prd \in {"p1"}, fails \in FailSets(1) :
       LinkChunkToPrdCall(c, prd, fails)
  \/ \E relType \in {"DEPENDS_ON"}, props \in PropInputs,
        fails \in FailSets(1) :
       CreateRelationshipCall("c1", "c2", relType, props, fails)
  \/ \E prd \in {"p1"}, fails \in FailSets(2) : DeletePrdCall(prd, fails)

Spec == Init /\ [][Next]_vars

(***************************************************************************)
(* get_dependencies on every DEPENDS_ON graph over three chunks.           *)
(***************************************************************************)
TravChunks ==
  { [label |-> "Chunk", id |-> "c1", copy |-> 1,
     p |-> [type |-> "requirement", text |-> "t1", priority |-> "high",
            context |-> "x1"]],
    [label |-> "Chunk", id |-> "c2", copy |-> 1,
     p |-> [type |-> "feature", text |-> "t2", priority |-> "medium",
            context |-> "x2"]],
    [label |-> "Chunk", id |-> "c3", copy |-> 1,
     p |-> [type |-> "constraint", text |-> "t3", priority |-> "low",
            context |-> "x3"]] }

TravEdges ==
  {[src |-> Nid(a), dst |-> Nid(b), type |-> "DEPENDS_ON", copy |-> 1,
    p |-> {}] : a \in TravChunks, b \in TravChunks}

\* a CONNECTED service on a store that holds some DEPENDS_ON graph
InitTraverse ==
  /\ AuxIdle
  /\ QueryIdle /\ CoordIdle
  /\ client = TRUE /\ available = TRUE /\ moduleLoaded = TRUE
  /\ conn = [ctor |-> "ok", open |-> "ok", ping |-> "ok", probe |-> "ok"]
  /\ ret = NoRet
  /\ nodes = TravChunks /\ edges \in SUBSET TravEdges
  /\ sentRel = {} /\ del = IdleDel
  /\ upserted = [c \in ChunkIds |-> [data |-> NoData, overwrote |-> FALSE]]

NextTraverse ==
  \E c \in {n.id : n \in TravChunks}, d \in 1..MaxDepth,
     dir \in Directions, fails \in FailSets(1) :
    GetDependencies(c, d, dir, fails)

SpecTraverse == InitTraverse /\ [][NextTraverse]_vars

(***************************************************************************)
(* Coverage and PRD listing on the graphs of a PRD with up to MaxReqs      *)
(* chunks, each of one of five kinds, and three artifacts.                 *)
(***************************************************************************)
\* most chunks of a PRD besides its artifacts
MaxReqs == 4

ReqIds == <<"r1", "r2", "r3", "r4", "r5", "r6">>

\* a chunk's type, its PRD, and the tests and the documents linked to it
Profiles ==
  << [type |-> "requirement", prd |-> "p1", tests |-> {}, docs |-> {}],
     [type |-> "feature", prd |-> "p1", tests |-> {"t1"}, docs |-> {"d1"}],
     [type |-> "constraint", prd |-> "p1", tests |-> {"t1", "t2"},
      docs |-> {}],
     [type |-> "overview", prd |-> "p1", tests |-> {"t1"}, docs |-> {"d1"}],
     [type |-> "requirement", prd |-> "p2", tests |-> {"t2"}, docs |-> {}] >>

\* one list of profiles per multiset of them: which chunk has which
\* profile makes no difference to the queries
ProfileLists(n) ==
  {[i \in 1..n |-> Profiles[f[i]]] :
     f \in {g \in [1..n -> 1..Len(Profiles)] :
              \A i \in 1..n, j \in 1..n : i <= j => g[i] <= g[j]}}

CoverChunk(id, type) ==
  [label |-> "Chunk", id |-> id, copy |-> 1,
   p |-> [type |-> type, text |-> "t", priority |-> "high",
          context |-> "x"]]

\* the two PRDs and the artifacts of p1: two tests and a document
CoverFixedNodes ==
  { [label |-> "PRD", id |-> "p1", copy |-> 1,
     p |-> [name |-> "n1", description |-> "d1"]],
    [label |-> "PRD", id |-> "p2", copy |-> 1,
     p |-> [name |-> "n2", description |-> "d2"]],
    CoverChunk("t1", "test_case"), CoverChunk("t2", "unit_test_spec"),
    CoverChunk("d1", "documentation") }

CoverFixedEdges ==
  {SampleEdge("Chunk", a, "BELONGS_TO", "PRD", "p1") : a \in {"t1", "t2", "d1"}}

\* the graph of the chunks 1..n with the profiles prof
CoverNodes(n, prof) ==
  CoverFixedNodes \cup {CoverChunk(ReqIds[i], prof[i].type) : i \in 1..n}

CoverEdges(n, prof) ==
  CoverFixedEdges
  \cup {SampleEdge("Chunk", ReqIds[i], "BELONGS_TO", "PRD", prof[i].prd) :
          i \in 1..n}
  \cup UNION {{SampleEdge("Chunk", t, "TESTS", "Chunk", ReqIds[i]) :
                 t \in prof[i].tests} : i \in 1..n}
  \cup UNION {{SampleEdge("Chunk", d, "DOCUMENTS", "Chunk", ReqIds[i]) :
                 d \in prof[i].docs} : i \in 1..n}

\* a CONNECTED service on a store that holds such a graph
InitCover ==
  /\ AuxIdle
  /\ QueryIdle /\ CoordIdle
  /\ client = TRUE /\ available = TRUE /\ moduleLoaded = TRUE
  /\ conn = [ctor |-> "ok", open |-> "ok", ping |-> "ok", probe |-> "ok"]
  /\ ret = NoRet
  /\ \E n \in 0..MaxReqs : \E prof \in ProfileLists(n) :
       nodes = CoverNodes(n, prof) /\ edges = CoverEdges(n, prof)
  /\ sentRel = {} /\ del = IdleDel
  /\ upserted = [c \in ChunkIds |-> [data |-> NoData, overwrote |-> FALSE]]

NextCover ==
  \/ \E type \in {"TESTS", "DOCUMENTS"}, prd \in {"p1", "p2", "zz"},
        fails \in FailSets(3) : GetCoverage(type, prd, fails)
  \/ \E fails \in FailSets(1) : GetAllPrds(fails)
  \/ \E prd \in {"p1", "p2", "zz"}, fails \in FailSets(2) :
       GetPrdDetails(prd, fails)

SpecCover == InitCover /\ [][NextCover]_vars

\* the chunks of a requirement-class type that belong to the PRD
RequirementsOf(prd) ==
  {c \in nodes : /\ c.label = "Chunk"
                 /\ c.p.type \in {"requirement", "feature", "constraint"}
                 /\ \E e \in edges : /\ e.type = "BELONGS_TO"
                                      /\ e.src = Nid(c)
                                      /\ e.dst[1] = "PRD" /\ e.dst[2] = prd}

\* those of them with an inbound edge of the type
CoveredOf(prd, type) ==
  {c \in RequirementsOf(prd) :
     \E e \in edges : e.type = type /\ e.dst = Nid(c)}

\* C14: get_test_coverage and get_documentation_coverage return the
\* number R of requirement-class chunks of the PRD as total, the number C
\* of them with an inbound TESTS (DOCUMENTS) edge as covered, R - C as
\* uncovered, and as coverage_percent 0 when R = 0 and else the hundredth
\* of a percent nearest to 100 * C / R.
C14_CoverageNumbers ==
  (/\ ret.op \in {"get_test_coverage", "get_documentation_coverage"}
   /\ ret.open /\ ~ret.raised) =>
    LET R == Cardinality(RequirementsOf(ret.arg))
        C == Cardinality(CoveredOf(ret.arg,
                                   IF ret.op = "get_test_coverage"
                                   THEN "TESTS" ELSE "DOCUMENTS"))
        pct == ret.value.coverage_percent
    IN /\ ret.value.total_requirements = R
       /\ ret.value.covered_requirements = C
       /\ ret.value.uncovered_requirements = R - C
       /\ R = 0 => pct = 0
       /\ R > 0 => /\ 2 * (pct * R - 10000 * C) <= R
                   /\ 2 * (10000 * C - pct * R) <= R

\* C14 witness: get_test_coverage on a PRD with four requirement-class
\* chunks, one tested once and one tested twice, returned total 4,
\* covered 2, uncovered 2 and 50.00 percent.
C14_Witness ==
  /\ ret.op = "get_test_coverage" /\ ret.arg = "p1"
  /\ ret.open /\ ~ret.raised
  /\ Cardinality(RequirementsOf("p1")) = 4
  /\ \E c \in RequirementsOf("p1") :
       Cardinality({e \in edges : e.type = "TESTS" /\ e.dst = Nid(c)}) = 2
  /\ ret.value.total_requirements = 4
  /\ ret.value.covered_requirements = 2
  /\ ret.value.uncovered_requirements = 2
  /\ ret.value.coverage_percent = 5000

\* the ids of the chunks one hop from a chunk of ids, along the direction
Neighbours(ns, es, dir, ids) ==
  {n.id : n \in {x \in ns : /\ x.label = "Chunk"
                            /\ \E e \in es, y \in ns :
                                 /\ e.type = "DEPENDS_ON" /\ y.id \in ids
                                 /\ y.label = "Chunk"
                                 /\ IF dir = "outgoing"
                                    THEN e.src = Nid(y) /\ e.dst = Nid(x)
                                    ELSE e.dst = Nid(y) /\ e.src = Nid(x)}}

\* the ids of the chunks between 1 and d hops from a chunk of ids
RECURSIVE WithinHops(_, _, _, _, _)
WithinHops(ns, es, dir, ids, d) ==
  IF d = 0 THEN {}
  ELSE Neighbours(ns, es, dir, ids)
       \cup WithinHops(ns, es, dir, Neighbours(ns, es, dir, ids), d - 1)

\* C12: get_dependencies(id, depth, direction) returns the chunks that are
\* within depth hops of id along DEPENDS_ON in the direction, all of them
\* and no other, on every graph, with or without cycles.
C12_ExactlyWithinDepth ==
  (ret.op = "get_dependencies" /\ ret.open /\ ~ret.raised) =>
    {m.row.chunk_id : m \in ret.value} =
      WithinHops(nodes, edges, ret.arg[3], {ret.arg[1]}, ret.arg[2])

\* C12 witness: on the cycle c1 -> c2 -> c3 -> c1, get_dependencies(c1,
\* depth 1) returned c2 alone; c3, two hops away, is not in the result.
C12_Witness ==
  /\ ret.op = "get_dependencies" /\ ret.arg = <<"c1", 1, "outgoing">>
  /\ ret.open /\ ~ret.raised
  /\ {<<e.src[2], e.dst[2]>> : e \in edges} =
       {<<"c1", "c2">>, <<"c2", "c3">>, <<"c3", "c1">>}
  /\ {m.row.chunk_id : m \in ret.value} = {"c2"}

\* C13: no chunk is twice in the list get_dependencies returns.
C13_EachChunkOnce ==
  (ret.op = "get_dependencies" /\ ret.open /\ ~ret.raised) =>
    \A m1, m2 \in ret.value :
      m1.row.chunk_id = m2.row.chunk_id => m1 = m2

(***************************************************************************)
(* Claims about the client.                                                *)
(***************************************************************************)
\* the value each operation documents for an unavailable graph
EmptyValue(op, arg) ==
  CASE op \in {"get_test_coverage", "get_documentation_coverage"} ->
         [prd_id |-> arg, total_requirements |-> 0,
          covered_requirements |-> 0, uncovered_requirements |-> 0,
          total_artifacts |-> 0, coverage_percent |-> 0]
    [] op = "get_full_traceability" -> [s \in Range(Sections) |-> {}]
    [] op \in {"create_prd_node", "create_chunk_node", "link_chunk_to_prd",
               "create_relationship"} -> "None"
    [] op = "delete_prd" -> "True"
    [] OTHER -> {}

\* C4: while the service is DEGRADED (constructed, available unset) no call
\* raises and no call sends a command, and each call returns its empty
\* value: no rows for traversals and listings, nothing for get_prd_details,
\* zeros for coverage, no chunk and empty sections for
\* get_full_traceability.
C4_DegradedReturnsEmpty ==
  (conn.ctor = "ok" /\ ~available /\ ret.op \notin {"none", "__init__"}) =>
    /\ ~ret.raised
    /\ ret.sent = 0
    /\ ret.value = EmptyValue(ret.op, ret.arg)

\* C4 witness: on a DEGRADED service, whose server fails every graph
\* command, get_test_coverage returned zeros and get_full_traceability
\* returned no chunk; a command meant to fail was never sent.
C4_Witness ==
  /\ conn.ctor = "ok" /\ ~available /\ ~moduleLoaded
  /\ ret.op \in {"get_test_coverage", "get_full_traceability"}
  /\ ret.fails # {}
  /\ ~ret.raised /\ ret.sent = 0

\* the edges of a type from a chunk to a node, by the ids of the two
EdgesFromTo(es, src, dstLabel, dst, type) ==
  {e \in es : /\ e.type = type
              /\ e.src[1] = "Chunk" /\ e.src[2] = src
              /\ e.dst[1] = dstLabel /\ e.dst[2] = dst}

\* C11: no call leaves two edges of one type from one node to another; a
\* create_relationship for an edge that is there, with the same or other
\* properties, leaves that one edge and adds none, and a link_chunk_to_prd
\* for a link that is there leaves the graph as it was.
C11_RepeatNeverDuplicates ==
  [][/\ \A e1, e2 \in edges' :
          (e1.src = e2.src /\ e1.dst = e2.dst /\ e1.type = e2.type)
            => e1 = e2
     /\ (/\ ret'.op = "create_relationship"
         /\ EdgesFromTo(edges, ret'.arg[1], "Chunk", ret'.arg[2],
                        ret'.arg[3]) # {}) =>
          /\ nodes' = nodes
          /\ Cardinality(edges') = Cardinality(edges)
          /\ Cardinality(EdgesFromTo(edges', ret'.arg[1], "Chunk",
                                     ret'.arg[2], ret'.arg[3])) = 1
     /\ (/\ ret'.op = "link_chunk_to_prd"
         /\ EdgesFromTo(edges, ret'.arg[1], "PRD", ret'.arg[2],
                        "BELONGS_TO") # {}) =>
          (nodes' = nodes /\ edges' = edges)]_vars

\* C11 witness: create_relationship was sent for the DEPENDS_ON edge the
\* graph had from c1 to c2, with a property that edge did not have, and
\* the graph has one such edge, with the property.
C11_Witness ==
  /\ ret.op = "create_relationship" /\ ret.arg = <<"c1", "c2", "DEPENDS_ON">>
  /\ ret.sent = 1 /\ ~ret.raised
  /\ \E e \in edges :
       /\ EdgesFromTo(edges, "c1", "Chunk", "c2", "DEPENDS_ON") = {e}
       /\ e.p = {<<"strength", "0.8">>}

\* C5 as claimed: construction fails exactly when the ping fails; with a
\* ping that succeeded it succeeds, available is set exactly when the probe
\* succeeded, and indexes are created only when available is set.
C5_FailsIffPingFails ==
  conn.ctor # "none" =>
    /\ conn.ctor = "raised" <=> conn.ping = "fail"
    /\ conn.ping = "ok" => (available <=> conn.probe = "ok")
    /\ (ret.op = "__init__" /\ ret.sent > 0) => available

\* C5 as amended: construction fails exactly when the client cannot be
\* created, the ping fails, or the probe fails with an error other than
\* "unknown command"; a construction that succeeded leaves available set
\* when the probe succeeded and unset when the command was unknown, and
\* indexes are created only by a construction that succeeded with available
\* set.
C5_FailsIffConnectOrPingOrProbeFails ==
  conn.ctor # "none" =>
    /\ conn.ctor = "raised" <=>
         (conn.open = "fail" \/ conn.ping = "fail" \/ conn.probe = "error")
    /\ conn.ctor = "ok" =>
         /\ available <=> conn.probe = "ok"
         /\ ~available <=> conn.probe = "unknown command"
    /\ conn.ctor = "raised" => ~available
    /\ (ret.op = "__init__" /\ ret.sent > 0) =>
         (conn.ctor = "ok" /\ available)

\* C5 witness: a construction against a server without the module
\* succeeded, left available unset and created no index.
C5_Witness ==
  /\ conn.ctor = "ok" /\ conn.ping = "ok"
  /\ conn.probe = "unknown command" /\ ~available
  /\ ret.op = "__init__" /\ ret.sent = 0

C8_FailedSectionEmptyOthersKept ==
  (ret.op = "get_full_traceability" /\ ret.open) =>
    /\ ~ret.raised
    /\ \A i \in 1..Len(Sections) :
         ret.value[Sections[i]] =
           IF i \in ret.fails THEN {}
           ELSE SectionRows(Sections[i], ret.arg[1], ret.arg[2])

(***************************************************************************)
(* PRDOrchestrator: the graph service with the relational store and the    *)
(* vector index.                                                           *)
(***************************************************************************)
\* most chunks of a processed PRD
MaxChunks == 2

\* the chunks ChunkingService.chunk_prd returns, and the relationship
\* detect_relationships finds between the first two
CoordChunks ==
  <<[id |-> "c1",
     data |-> [type |-> "requirement", text |-> "t1", priority |-> "high",
               context |-> "x1"]],
    [id |-> "c2",
     data |-> [type |-> "feature", text |-> "t2", priority |-> "medium",
               context |-> "x2"]],
    [id |-> "c3",
     data |-> [type |-> "constraint", text |-> "t3", priority |-> "low",
               context |-> "x3"]]>>
CoordRels == <<[src |-> "c1", dst |-> "c2", type |-> "DEPENDS_ON"]>>
CoordPrdData == [name |-> "n1", description |-> "d1"]

\* PRDOrchestrator.__init__ 36-59: each optional service is kept or left
\* None; a GraphService that was constructed may be DEGRADED
InitCoord ==
  /\ AuxIdle
  /\ QueryIdle
  /\ svc \in [graph : {"absent", "degraded", "ok"}, db : {"absent", "ok"}]
  /\ client = (svc.graph # "absent")
  /\ available = (svc.graph = "ok")
  /\ moduleLoaded = (svc.graph = "ok")
  /\ conn = IF svc.graph = "absent" THEN NoConn
            ELSE [ctor |-> "ok", open |-> "ok", ping |-> "ok",
                  probe |-> IF svc.graph = "ok" THEN "ok"
                            ELSE "unknown command"]
  /\ ret = NoRet
  /\ GraphIdle
  /\ rel = [prds |-> {}, chunks |-> {}] /\ vec = {} /\ run = NoRun

CallStep(backend, call, i) == [backend |-> backend, call |-> call, i |-> i]

\* process_prd 109-159: the calls made for the chunks i..n, in the order of
\* the loop body
RECURSIVE ChunkSteps(_, _)
ChunkSteps(i, n) ==
  IF i > n THEN <<>>
  ELSE <<CallStep("vector", "index_chunk", i),
         CallStep("db", "create_chunk", i),
         CallStep("graph", "create_chunk_node", i),
         CallStep("graph", "link_chunk_to_prd", i)>> \o ChunkSteps(i + 1, n)

\* process_prd 74-173: every write it would make to the three stores, in
\* order
AllSteps(n, nrels) ==
  <<CallStep("db", "create_prd", 0),
    CallStep("graph", "create_prd_node", 0)>>
  \o ChunkSteps(1, n)
  \o [j \in 1..nrels |-> CallStep("graph", "create_relationship", j)]

\* "if self.db_service:", "if self.graph_service:" (75, 103, 130, 147, 163)
ServicePresent(backend) ==
  CASE backend = "db" -> svc.db # "absent"
    [] backend = "graph" -> svc.graph # "absent"
    [] OTHER -> TRUE

RECURSIVE Planned(_)
Planned(steps) ==
  IF steps = <<>> THEN <<>>
  ELSE (IF ServicePresent(Head(steps).backend) THEN <<Head(steps)>>
        ELSE <<>>) \o Planned(Tail(steps))

\* process_prd 76-96, 131-144: the calls inside a try/except
Wrapped(step) == step.backend = "db"

\* what a call that succeeded leaves in the stores
Effect(step, prd, st) ==
  CASE step.call = "create_prd" ->
         [st EXCEPT !.rel.prds = @ \cup {prd}]
    [] step.call = "index_chunk" ->
         [st EXCEPT !.vec = @ \cup {CoordChunks[step.i].id}]
    [] step.call = "create_chunk" ->
         [st EXCEPT !.rel.chunks =
                      @ \cup {<<CoordChunks[step.i].id, prd,
                                CoordChunks[step.i].data.type>>}]
    [] step.call = "create_prd_node" /\ QuerySent ->
         [st EXCEPT !.nodes = MergeNode(@, "PRD", prd, CoordPrdData)]
    [] step.call = "create_chunk_node" /\ QuerySent ->
         [st EXCEPT !.nodes = MergeNode(@, "Chunk", CoordChunks[step.i].id,
                                        CoordChunks[step.i].data)]
    [] step.call = "link_chunk_to_prd" /\ QuerySent ->
         [st EXCEPT !.edges = MergeEdge(st.nodes, @, "Chunk",
                                        CoordChunks[step.i].id, "PRD", prd,
                                        "BELONGS_TO", {})]
    [] step.call = "create_relationship" /\ QuerySent ->
         [st EXCEPT !.edges = MergeEdge(st.nodes, @, "Chunk",
                                        CoordRels[step.i].src, "Chunk",
                                        CoordRels[step.i].dst,
                                        CoordRels[step.i].type,
                                        {<<"strength", "0.8">>})]
    [] OTHER -> st

\* the calls of steps from the k-th on. A call of fails raises (a graph
\* call only when its query is sent); inside a try/except the error is
\* logged and the next call is made, elsewhere it leaves process_prd.
RECURSIVE Exec(_, _, _, _, _)
Exec(steps, k, fails, prd, st) ==
  IF k > Len(steps) \/ st.raised THEN st
  ELSE LET step == steps[k]
           bad == k \in fails /\ (step.backend = "graph" => QuerySent)
           called == [st EXCEPT !.attempted = Append(@, step)]
       IN Exec(steps, k + 1, fails, prd,
               IF bad /\ Wrapped(step)
               THEN [called EXCEPT !.failed = @ \cup {step},
                                   !.logged = @ \cup {step}]
               ELSE IF bad
               THEN [called EXCEPT !.failed = @ \cup {step},
                                   !.raised = TRUE]
               ELSE Effect(step, prd, called))

\* PRDOrchestrator.process_prd(prd) 61-196 for a PRD of n chunks with nrels
\* detected relationships. The two statistics reads that end it (176-177)
\* write nothing and are left out.
ProcessPrd(prd, n, nrels, fails) ==
  /\ nrels <= (IF n >= 2 THEN Len(CoordRels) ELSE 0)
  /\ fails \subseteq 1..Len(Planned(AllSteps(n, nrels)))
  /\ \E steps \in {Planned(AllSteps(n, nrels))} :
     \E st \in {Exec(steps, 1, fails, prd,
                     [rel |-> rel, vec |-> vec, nodes |-> nodes,
                      edges |-> edges, attempted |-> <<>>, failed |-> {},
                      logged |-> {}, raised |-> FALSE])} :
     LET sentTypes == {CoordRels[x.i].type :
                         x \in {y \in Range(st.attempted) :
                                  y.call = "create_relationship"}}
     IN /\ rel' = st.rel /\ vec' = st.vec
        /\ nodes' = st.nodes /\ edges' = st.edges
        /\ sentRel' = IF QuerySent THEN sentRel \cup sentTypes ELSE sentRel
        /\ run' = [op |-> "process_prd", arg |-> prd, planned |-> steps,
                   attempted |-> st.attempted, failed |-> st.failed,
                   logged |-> st.logged, raised |-> st.raised, from |-> "-",
                   value |-> IF st.raised THEN "-"
                             ELSE [prd_id |-> prd, chunks_created |-> n,
                                   relationships_created |-> nrels]]
  /\ UNCHANGED <<svc, upserted, del, queryVars, decodeVars, auxVars, clientVars>>

\* the generated test case _store_test_case is given
TestCaseData ==
  [type |-> "test_case", text |-> "t9", priority |-> "high",
   context |-> "x9"]

\* TestGenerationService._store_test_case 496-605 for the test case test
\* of the requirement req of prd: the relational write, the three graph
\* calls and the vector write are in three try/except blocks, so a call
\* of fails ends its block and is logged. The graph block is entered with
\* a graph service whose available is set (561).
StoreTestCase(test, req, prd, fails) ==
  LET db == CallStep("db", "create_chunk", 0)
      node == CallStep("graph", "create_chunk_node", 0)
      link == CallStep("graph", "link_chunk_to_prd", 0)
      tests == CallStep("graph", "create_tests_relationship", 0)
      index == CallStep("vector", "index_chunk", 0)
      graphOn == svc.graph # "absent" /\ available
      calls == (IF svc.db # "absent" THEN <<db>> ELSE <<>>)
               \o (IF graphOn THEN <<node>> ELSE <<>>)
               \o (IF graphOn /\ 2 \notin fails THEN <<link>> ELSE <<>>)
               \o (IF graphOn /\ fails \cap {2, 3} = {} THEN <<tests>>
                    ELSE <<>>)
               \o <<index>>
      errors == {x \in Range(calls) :
                   \/ x = db /\ 1 \in fails
                   \/ x = node /\ 2 \in fails
                   \/ x = link /\ 3 \in fails
                   \/ x = tests /\ 4 \in fails
                   \/ x = index /\ 5 \in fails}
      done(x) == x \in Range(calls) \ errors
      nodes1 == IF done(node)
                THEN MergeNode(nodes, "Chunk", test, TestCaseData)
                ELSE nodes
      edges1 == IF done(link)
                THEN MergeEdge(nodes1, edges, "Chunk", test, "PRD", prd,
                               "BELONGS_TO", {})
                ELSE edges
  IN /\ rel' = IF done(db)
               THEN [rel EXCEPT !.chunks = @ \cup {<<test, prd, "test_case">>}]
               ELSE rel
     /\ nodes' = nodes1
     /\ edges' = IF done(tests)
                 THEN MergeEdge(nodes1, edges1, "Chunk", test, "Chunk", req,
                                "TESTS", {<<"generated", "true">>})
                 ELSE edges1
     /\ sentRel' = IF tests \in Range(calls) THEN sentRel \cup {"TESTS"}
                   ELSE sentRel
     /\ vec' = IF done(index) THEN vec \cup {test} ELSE vec
     /\ run' = [op |-> "store_test_case", arg |-> test,
                planned |-> <<db, node, link, tests, index>>,
                attempted |-> calls, failed |-> errors, logged |-> errors,
                raised |-> FALSE, from |-> "-", value |-> "None"]
     /\ UNCHANGED <<svc, upserted, del, queryVars, decodeVars, auxVars, clientVars>>

\* DatabaseService.get_all_prds 74-87
DbPrdRows ==
  {[id |-> q,
    chunk_count |-> Cardinality({c \in rel.chunks : c[2] = q})] :
     q \in rel.prds}

\* DatabaseService.get_prd_details 89-108: None (the empty set here) for an
\* unknown id
DbPrdDetails(prd) ==
  IF prd \in rel.prds
  THEN {[id |-> prd,
         chunks |-> {[id |-> c[1], type |-> c[3]] :
                       c \in {x \in rel.chunks : x[2] = prd}}]}
  ELSE {}

\* what a read of the orchestrator returns, and from where: the graph
\* service when it is there, did not raise and (for the details only, 313)
\* returned something; else the relational store when it is there and did
\* not raise; else the empty value
ReadThrough(op, arg, gValue, gTruthy, dbValue, gFails, dbFails) ==
  LET graphRaised == svc.graph # "absent" /\ QuerySent /\ gFails
      fromGraph == svc.graph # "absent" /\ ~graphRaised /\ gTruthy
      dbCalled == ~fromGraph /\ svc.db # "absent"
      dbRaised == dbCalled /\ dbFails
      errors == (IF graphRaised THEN {CallStep("graph", op, 0)} ELSE {})
                \cup (IF dbRaised THEN {CallStep("db", op, 0)} ELSE {})
  IN [op |-> op, arg |-> arg, planned |-> <<>>,
      attempted |->
        (IF svc.graph # "absent" THEN <<CallStep("graph", op, 0)>>
         ELSE <<>>) \o
        (IF dbCalled THEN <<CallStep("db", op, 0)>> ELSE <<>>),
      failed |-> errors, logged |-> errors,
      raised |-> FALSE,
      from |-> IF fromGraph THEN "graph"
               ELSE IF dbCalled /\ ~dbRaised THEN "db" ELSE "none",
      value |-> IF fromGraph THEN gValue
                ELSE IF dbCalled /\ ~dbRaised THEN dbValue ELSE {}]

\* PRDOrchestrator.get_all_prds 275-297: whatever the graph service
\* returns is returned
CoordGetAllPrds(graphFails, dbFails) ==
  /\ run' = ReadThrough("get_all_prds", "-", Rows(PrdRows(nodes, edges)),
                        TRUE, DbPrdRows, graphFails, dbFails)
  /\ UNCHANGED <<svc, rel, vec, queryVars, decodeVars, auxVars, clientVars, graphVars>>

\* PRDOrchestrator.get_prd_details 299-325: "if result: return result"
CoordGetPrdDetails(prd, graphFails, dbFails) ==
  /\ run' = ReadThrough("get_prd_details", prd, PrdDetails(prd),
                        PrdDetails(prd) # {}, DbPrdDetails(prd), graphFails,
                        dbFails)
  /\ UNCHANGED <<svc, rel, vec, queryVars, decodeVars, auxVars, clientVars, graphVars>>

NextCoord ==
  \/ \E prd \in {"p1"}, n \in 1..MaxChunks, nrels \in 0..Len(CoordRels),
        fails \in FailSets(4 * MaxChunks + 2 + Len(CoordRels)) :
       ProcessPrd(prd, n, nrels, fails)
  \/ \E fails \in FailSets(5) : StoreTestCase("k1", "c1", "p1", fails)
  \/ \E graphFails \in BOOLEAN, dbFails \in BOOLEAN :
       CoordGetAllPrds(graphFails, dbFails)
  \/ \E prd \in CallPrdIds, graphFails \in BOOLEAN, dbFails \in BOOLEAN :
       CoordGetPrdDetails(prd, graphFails, dbFails)

SpecCoord == InitCoord /\ [][NextCoord]_vars

(***************************************************************************)
(* Claims about the orchestrator.                                          *)
(***************************************************************************)
\* C6: whichever writes of process_prd fail, it does not raise, every
\* failure is logged, and every write to a store that is there is made,
\* for every chunk of the PRD.
C6_EveryWriteIsolated ==
  run.op = "process_prd" =>
    /\ ~run.raised
    /\ run.logged = run.failed
    /\ run.attempted = run.planned

\* C7: the list and the details of PRDs never raise and, when the graph
\* service is absent, DEGRADED or raised, are what the relational store
\* returns, or empty when that store is absent or raised too.
C7_GraphDownReadsRelational ==
  run.op \in {"get_all_prds", "get_prd_details"} =>
    /\ ~run.raised
    /\ (svc.graph \in {"absent", "degraded"}
          \/ CallStep("graph", run.op, 0) \in run.failed) =>
         run.value =
           IF svc.db = "absent" \/ CallStep("db", run.op, 0) \in run.failed
           THEN {}
           ELSE IF run.op = "get_all_prds" THEN DbPrdRows
           ELSE DbPrdDetails(run.arg)

\* the place of a store in the order relational, vector, graph
StoreRank(backend) ==
  CASE backend = "db" -> 1 [] backend = "vector" -> 2 [] OTHER -> 3

\* C21: in every ingestion and every storing of a generated test case, the
\* writes of one chunk are attempted in the order relational store, vector
\* index, graph: of two attempted writes of the same chunk, the one to the
\* store that comes first in that order was attempted first.
C21_RelationalThenVectorThenGraph ==
  run.op \in {"process_prd", "store_test_case"} =>
    \A a, b \in DOMAIN run.attempted :
      LET x == run.attempted[a]
          y == run.attempted[b]
          writes == {"create_chunk", "index_chunk", "create_chunk_node"}
      IN (x.call \in writes /\ y.call \in writes /\ x.i = y.i
            /\ StoreRank(x.backend) < StoreRank(y.backend)) => a < b

\* the BELONGS_TO edges that leave a node
OwnerEdges(n) == {e \in edges : e.type = "BELONGS_TO" /\ e.src = Nid(n)}

\* C22: after every ingestion and every storing of a generated artifact
\* that returned, each Chunk node of the graph has exactly one outgoing
\* BELONGS_TO edge.
C22_ChunkOwnedByOnePrd ==
  (run.op \in {"process_prd", "store_test_case"} /\ ~run.raised) =>
    \A n \in nodes : n.label = "Chunk" => Cardinality(OwnerEdges(n)) = 1

\* the chunks of a PRD in the store a read was answered from, as
\* <<id, type>>
StoredChunks(from, prd) ==
  IF from = "graph"
  THEN {<<c.id, c.p.type>> : c \in ChunksOfPrd(nodes, edges, prd)}
  ELSE {<<c[1], c[3]>> : c \in {x \in rel.chunks : x[2] = prd}}

\* C15: the list of PRDs gives each PRD the number of its chunks that are
\* of no artifact type as chunk_count and the number of its chunks of a
\* test type as test_count; the details of a PRD hold its chunks of no
\* artifact type as chunks and all its chunks of a test type as tests,
\* with chunk_count and test_count their numbers.
C15_ArtifactsCountedApart ==
  LET plain(r) == {c \in StoredChunks(run.from, r) :
                     c[2] \notin ArtifactTypes}
      tests(r) == {c \in StoredChunks(run.from, r) : c[2] \in TestTypes}
  IN /\ (run.op = "get_all_prds" /\ run.from \in {"graph", "db"}) =>
          \A r \in run.value :
            /\ r.chunk_count = Cardinality(plain(r.id))
            /\ "test_count" \in DOMAIN r
            /\ r.test_count = Cardinality(tests(r.id))
     /\ (run.op = "get_prd_details" /\ run.from \in {"graph", "db"}) =>
          \A r \in run.value :
            /\ {<<c.id, c.type>> : c \in r.chunks} = plain(run.arg)
            /\ "tests" \in DOMAIN r
            /\ {<<c.id, c.type>> : c \in r.tests} = tests(run.arg)
            /\ r.chunk_count = Cardinality(r.chunks)
            /\ r.test_count = Cardinality(r.tests)

(***************************************************************************)
(* PRDOrchestrator.delete_prd (SpecDelete): an orchestrator whose stores    *)
(* hold the PRD p1 with up to MaxChunks chunks, each store on its own.      *)
(***************************************************************************)
\* the graph of p1 with its first n chunks
RECURSIVE StoredGraph(_)
StoredGraph(n) ==
  IF n = 0
  THEN [nodes |-> MergeNode({}, "PRD", "p1", CoordPrdData), edges |-> {}]
  ELSE LET g == StoredGraph(n - 1)
           ns == MergeNode(g.nodes, "Chunk", CoordChunks[n].id,
                           CoordChunks[n].data)
       IN [nodes |-> ns,
           edges |-> MergeEdge(ns, g.edges, "Chunk", CoordChunks[n].id,
                               "PRD", "p1", "BELONGS_TO", {})]

\* the rows of p1 with its first n chunks
StoredRows(n) ==
  [prds |-> {"p1"},
   chunks |-> {<<CoordChunks[i].id, "p1", CoordChunks[i].data.type>> :
                 i \in 1..n}]

InitDelete ==
  /\ AuxIdle
  /\ QueryIdle
  /\ svc \in [graph : {"absent", "degraded", "ok"}, db : {"absent", "ok"}]
  /\ client = (svc.graph # "absent")
  /\ available = (svc.graph = "ok")
  /\ moduleLoaded = (svc.graph = "ok")
  /\ conn = IF svc.graph = "absent" THEN NoConn
            ELSE [ctor |-> "ok", open |-> "ok", ping |-> "ok",
                  probe |-> IF svc.graph = "ok" THEN "ok"
                            ELSE "unknown command"]
  /\ ret = NoRet
  /\ sentRel = {} /\ del = IdleDel
  /\ upserted = [c \in ChunkIds |-> [data |-> NoData, overwrote |-> FALSE]]
  /\ run = NoRun
  /\ \E n \in 0..MaxChunks, inDb \in BOOLEAN, inGraph \in BOOLEAN,
        indexed \in BOOLEAN :
       /\ inDb => svc.db = "ok"
       /\ inGraph => svc.graph = "ok"
       /\ rel = IF inDb THEN StoredRows(n)
                ELSE [prds |-> {}, chunks |-> {}]
       /\ nodes = IF inGraph THEN StoredGraph(n).nodes ELSE {}
       /\ edges = IF inGraph THEN StoredGraph(n).edges ELSE {}
       /\ vec = IF indexed THEN {CoordChunks[i].id : i \in 1..n} ELSE {}

DeleteSteps ==
  <<CallStep("db", "delete_prd", 0), CallStep("graph", "delete_prd", 0)>>

\* DatabaseService.delete_prd 132-142: the PRD row goes, and with it its
\* chunk rows (the relationship cascades); nothing when there is no such row
DbDeletePrd(r, prd) ==
  IF prd \notin r.prds THEN r
  ELSE [prds |-> r.prds \ {prd},
        chunks |-> {c \in r.chunks : c[2] # prd}]

\* A plausible slip: the flag is not cleared in the except blocks.
DeleteSuccessAlways(failed) == "True"

\* 337, 346, 355, 360: success is cleared by each except block
DeleteSuccess(failed) == IF failed = {} THEN "True" ELSE "False"

\* PRDOrchestrator.delete_prd(prd_id) 327-360. dbFails: the relational
\* delete raises; graphFails: the queries of GraphService.delete_prd that
\* fail.
CoordDeletePrd(prd, dbFails, graphFails) ==
  LET planned == Planned(DeleteSteps)
      graph == Attempt(2, graphFails)
      failed == {step \in Range(planned) :
                   \/ step.backend = "db" /\ dbFails
                   \/ step.backend = "graph" /\ graph.raised}
      first == DeleteChunksOfPrd(nodes, edges, prd)
      second == DeletePrdNode(first.nodes, first.edges, prd)
  IN /\ rel' = IF ServicePresent("db") /\ ~dbFails
               THEN DbDeletePrd(rel, prd) ELSE rel
     /\ IF ServicePresent("graph") /\ graph.sent = 2 /\ ~graph.raised
        THEN nodes' = second.nodes /\ edges' = second.edges
        ELSE IF ServicePresent("graph") /\ graph.sent = 2
        THEN nodes' = first.nodes /\ edges' = first.edges
        ELSE UNCHANGED <<nodes, edges>>
     /\ run' = [op |-> "delete_prd", arg |-> prd, planned |-> planned,
                attempted |-> planned, failed |-> failed,
                logged |-> failed, raised |-> FALSE, from |-> "-",
                value |-> DeleteSuccess(failed)]
     /\ UNCHANGED <<svc, vec, sentRel, upserted, del, queryVars, decodeVars, auxVars,
                    clientVars>>

NextDelete ==
  \E prd \in CallPrdIds, dbFails \in BOOLEAN, graphFails \in FailSets(2) :
    CoordDeletePrd(prd, dbFails, graphFails)

SpecDelete == InitDelete /\ [][NextDelete]_vars

\* the ids of the chunks a PRD has in the relational store or in the graph
StoredChunkIds(prd) ==
  {c[1] : c \in {x \in rel.chunks : x[2] = prd}}
    \cup {c.id : c \in ChunksOfPrd(nodes, edges, prd)}

\* C20: a delete_prd(p) of the orchestrator calls the delete of every store
\* it has, the relational one and the graph, whatever the other did: a
\* delete that did not raise leaves no row of p (no PRD node of p and no
\* chunk of p in the graph) also when the other raised; the call does not
\* raise and returns False exactly when a delete it called raised; and the
\* vector index holds afterwards every id it held before, those of p's
\* chunks included.
C20_DeletesIndependentVectorKept ==
  [][run'.op = "delete_prd" =>
       LET p == run'.arg
           db == CallStep("db", "delete_prd", 0)
           graph == CallStep("graph", "delete_prd", 0)
       IN /\ ~run'.raised
          /\ Range(run'.attempted) =
               {step \in {db, graph} : ServicePresent(step.backend)}
          /\ run'.value = "False" <=> run'.failed # {}
          /\ (db \in Range(run'.attempted) \ run'.failed) =>
               /\ p \notin rel'.prds
               /\ {c \in rel'.chunks : c[2] = p} = {}
          /\ (graph \in Range(run'.attempted) \ run'.failed /\ QueryOpen) =>
               /\ Matching(nodes', "PRD", p) = {}
               /\ \A c \in ChunksOfPrd(nodes, edges, p) : c \notin nodes'
          /\ vec \cap StoredChunkIds(p) \subseteq vec'
          /\ vec \subseteq vec']_vars

\* C20 witness: the relational delete raised and the graph delete was still
\* made: the call returned False, the rows of p1 are there, the graph has no
\* node left, and the index still holds the ids of the chunks.
C20_Witness ==
  /\ run.op = "delete_prd" /\ run.arg = "p1" /\ run.value = "False"
  /\ run.failed = {CallStep("db", "delete_prd", 0)}
  /\ CallStep("graph", "delete_prd", 0) \in Range(run.attempted)
  /\ "p1" \in rel.prds /\ nodes = {} /\ QueryOpen
  /\ vec = {CoordChunks[i].id : i \in 1..MaxChunks}


(***************************************************************************)
(* ChunkingService.detect_relationships (SpecDetect): a pure function of    *)
(* the list of chunks. A text is the sequence of its characters.            *)
(***************************************************************************)
\* longest list of chunks given to the detector
MaxDetectChunks == 3

UpperCase ==
  <<"A", "B", "C", "D", "E", "F", "G", "H", "I", "J", "K", "L", "M", "N",
    "O", "P", "Q", "R", "S", "T", "U", "V", "W", "X", "Y", "Z">>
LowerCase ==
  <<"a", "b", "c", "d", "e", "f", "g", "h", "i", "j", "k", "l", "m", "n",
    "o", "p", "q", "r", "s", "t", "u", "v", "w", "x", "y", "z">>
Digits == {"0", "1", "2", "3", "4", "5", "6", "7", "8", "9"}

\* str.lower()
ToLower(s) ==
  [i \in DOMAIN s |->
     IF \E k \in DOMAIN UpperCase : UpperCase[k] = s[i]
     THEN LowerCase[CHOOSE k \in DOMAIN UpperCase : UpperCase[k] = s[i]]
     ELSE s[i]]

\* "sub in s"
StrContains(s, sub) ==
  \E i \in 0..(Len(s) - Len(sub)) : SubSeq(s, i + 1, i + Len(sub)) = sub

\* the characters \w matches
WordChars == Range(UpperCase) \cup Range(LowerCase) \cup Digits \cup {"_"}

\* the maximal runs of characters of keep in s from the i-th on, in order;
\* cur is the run being read
RECURSIVE Runs(_, _, _, _)
Runs(s, keep, i, cur) ==
  IF i > Len(s) THEN (IF cur = <<>> THEN <<>> ELSE <<cur>>)
  ELSE IF s[i] \in keep THEN Runs(s, keep, i + 1, Append(cur, s[i]))
  ELSE (IF cur = <<>> THEN <<>> ELSE <<cur>>) \o Runs(s, keep, i + 1, <<>>)

\* set(re.findall(r'\w+', s))
FindAllWords(s) == Range(Runs(s, WordChars, 1, <<>>))

\* s.split(): the runs of characters that are not whitespace
SplitWords(s) == Runs(s, Range(s) \ {" "}, 1, <<>>)

\* _has_dependency 121-128
DependencyKeywords ==
  {<<"d", "e", "p", "e", "n", "d", "s", " ", "o", "n">>,
   <<"r", "e", "q", "u", "i", "r", "e", "s">>,
   <<"n", "e", "e", "d", "s">>,
   <<"p", "r", "e", "r", "e", "q", "u", "i", "s", "i", "t", "e">>,
   <<"r", "e", "l", "i", "e", "s", " ", "o", "n">>,
   <<"b", "a", "s", "e", "d", " ", "o", "n">>}

\* _has_reference 150-165
StopWords ==
  {<<"t", "h", "e">>,
   <<"a">>,
   <<"a", "n">>,
   <<"a", "n", "d">>,
   <<"o", "r">>,
   <<"b", "u", "t">>,
   <<"i", "n">>,
   <<"o", "n">>,
   <<"a", "t">>,
   <<"t", "o">>,
   <<"f", "o", "r">>,
   <<"o", "f">>,
   <<"w", "i", "t", "h">>,
   <<"b", "y">>}

\* _has_implementation 181-199
ImplementationStopWords ==
  {<<"t", "h", "e">>,
   <<"a">>,
   <<"a", "n">>,
   <<"a", "n", "d">>,
   <<"o", "r">>,
   <<"b", "u", "t">>,
   <<"i", "n">>,
   <<"o", "n">>,
   <<"a", "t">>,
   <<"t", "o">>,
   <<"f", "o", "r">>,
   <<"o", "f">>,
   <<"w", "i", "t", "h">>,
   <<"b", "y">>,
   <<"s", "h", "a", "l", "l">>,
   <<"m", "u", "s", "t">>,
   <<"w", "i", "l", "l">>}

\* A plausible slip: the title of the target is not looked at.
HasDependencyKeywordOnly(text, target_chunk) ==
  \E kw \in DependencyKeywords : StrContains(ToLower(text), kw)

\* _has_dependency(text, target_chunk) 118-140
HasDependency(text, target_chunk) ==
  LET text_lower == ToLower(text)
      has_keyword == \E kw \in DependencyKeywords : StrContains(text_lower, kw)
      target_terms == SplitWords(ToLower(target_chunk.section_title))
  IN has_keyword /\ \E k \in DOMAIN target_terms :
                      /\ Len(target_terms[k]) > 3
                      /\ StrContains(text_lower, target_terms[k])

\* _has_reference(text, target_chunk) 142-171
HasReference(text, target_chunk) ==
  LET text_words == FindAllWords(ToLower(text)) \ StopWords
      target_words == FindAllWords(ToLower(target_chunk.text)) \ StopWords
  IN Cardinality(text_words \cap target_words) >= 3

\* A plausible slip: the threshold of _has_reference is used.
HasImplementationThree(feature_text, requirement_text) ==
  Cardinality((FindAllWords(ToLower(requirement_text))
                 \cap FindAllWords(ToLower(feature_text)))
                \ ImplementationStopWords) >= 3

\* _has_implementation(feature_text, requirement_text) 173-205
HasImplementation(feature_text, requirement_text) ==
  LET req_words == FindAllWords(ToLower(requirement_text))
                     \ ImplementationStopWords
      feature_words == FindAllWords(ToLower(feature_text))
                         \ ImplementationStopWords
  IN Cardinality(req_words \cap feature_words) >= 2

\* lines 100-114: what one pair adds to the list
PairRelationships(chunk1, chunk2) ==
  (IF HasDependency(chunk1.text, chunk2)
   THEN <<<<chunk1.id, chunk2.id, "DEPENDS_ON">>>> ELSE <<>>)
  \o (IF HasReference(chunk1.text, chunk2)
      THEN <<<<chunk1.id, chunk2.id, "REFERENCES">>>> ELSE <<>>)
  \o (IF /\ chunk1.chunk_type = "feature"
         /\ chunk2.chunk_type = "requirement"
         /\ HasImplementation(chunk1.text, chunk2.text)
      THEN <<<<chunk1.id, chunk2.id, "IMPLEMENTS">>>> ELSE <<>>)

\* A plausible slip: chunk1 is paired with every other chunk.
PartnersAll(i, n) == [k \in 1..(n - 1) |-> IF k < i THEN k ELSE k + 1]

\* line 99: chunks[i + 1:], as the indexes of the chunks paired with the i-th
Partners(i, n) == [k \in 1..(n - i) |-> i + k]

\* lines 98-114: the pairs of the i-th chunk from its k-th partner on, then
\* those of the chunks after it
RECURSIVE DetectFrom(_, _, _)
DetectFrom(cs, i, k) ==
  IF i > Len(cs) THEN <<>>
  ELSE IF k > Len(Partners(i, Len(cs))) THEN DetectFrom(cs, i + 1, 1)
  ELSE PairRelationships(cs[i], cs[Partners(i, Len(cs))[k]])
         \o DetectFrom(cs, i, k + 1)

\* detect_relationships(chunks) 86-116
DetectRelationships(cs) == DetectFrom(cs, 1, 1)

\* ---- the chunks given to the detector ----
TextA ==
    <<"I", "m", "p", "l", "e", "m", "e", "n", "t", "s", " ", "O", "A",
    "u", "t", "h", "2", " ", "l", "o", "g", "i", "n">>
TextB ==
    <<"S", "y", "s", "t", "e", "m", " ", "s", "h", "a", "l", "l", " ",
    "s", "u", "p", "p", "o", "r", "t", " ", "O", "A", "u", "t", "h", "2",
    " ", "l", "o", "g", "i", "n">>
TextC ==
    <<"L", "o", "g", "i", "n", " ", "R", "E", "Q", "U", "I", "R", "E",
    "S", " ", "t", "h", "e", " ", "S", "e", "c", "u", "r", "i", "t", "y",
    " ", "m", "o", "d", "u", "l", "e">>
TextD ==
    <<"I", "t", " ", "m", "u", "s", "t", " ", "b", "e", " ", "b", "a",
    "s", "e", "d", " ", "o", "n", " ", "O", "A", "u", "t", "h", "2", "_",
    "l", "o", "g", "i", "n">>
TextE ==
    <<"N", "e", "e", "d", "s", " ", "l", "o", "g", "i", "n", ",", " ",
    "O", "A", "u", "t", "h", "2", " ", "a", "n", "d", " ", "t", "h", "e",
    " ", "s", "y", "s", "t", "e", "m", " ", "s", "u", "p", "p", "o", "r",
    "t">>
TextF ==
    <<"T", "h", "e", " ", "s", "y", "s", "t", "e", "m", " ", "w", "i",
    "l", "l", " ", "s", "u", "p", "p", "o", "r", "t", " ", "t", "h", "e",
    " ", "l", "o", "g", "i", "n">>
TitleLogin ==
    <<"L", "o", "g", "i", "n">>
TitleSecurity ==
    <<"S", "e", "c", "u", "r", "i", "t", "y", " ", "n", "e", "e", "d",
    "s">>
TitleOAuth ==
    <<"T", "h", "e", " ", "O", "A", "u", "t", "h", "2", " ", "A", "P",
    "I">>

\* what chunk_prd gives a chunk: its type, text and metadata.section_title
ChunkProfiles ==
  {[chunk_type |-> "feature", text |-> TextA, section_title |-> TitleLogin],
   [chunk_type |-> "requirement", text |-> TextB,
    section_title |-> TitleSecurity],
   [chunk_type |-> "feature", text |-> TextC, section_title |-> TitleOAuth],
   [chunk_type |-> "requirement", text |-> TextD, section_title |-> <<>>],
   [chunk_type |-> "feature", text |-> TextE, section_title |-> TitleLogin],
   [chunk_type |-> "constraint", text |-> TextF,
    section_title |-> TitleSecurity]}

\* chunk ids are uuids (chunk_prd): distinct, in no order of their own
DetectIds == <<"u4", "u1", "u3", "u5", "u2">>

ChunkLists ==
  {[i \in DOMAIN ps |->
      [id |-> DetectIds[i], chunk_type |-> ps[i].chunk_type,
       text |-> ps[i].text, section_title |-> ps[i].section_title]] :
     ps \in SeqsUpTo(ChunkProfiles, MaxDetectChunks)}

\* ---- specification of detect_relationships ----
InitDetect ==
  /\ QueryIdle /\ ClientIdle /\ GraphIdle /\ CoordIdle /\ RequestsIdle
  /\ CovIdle /\ JobsIdle
  /\ inputChunks \in ChunkLists
  /\ relationships = <<>> /\ kpc = "input"

\* detect_relationships(chunks)
DetectRelationshipsCall ==
  /\ kpc = "input"
  /\ relationships' = DetectRelationships(inputChunks)
  /\ kpc' = "detected"
  /\ UNCHANGED <<inputChunks, requests, cov, jobs, queryVars, decodeVars,
                 clientVars, graphVars, coordVars>>

NextDetect == DetectRelationshipsCall

SpecDetect == InitDetect /\ [][NextDetect]_vars


(***************************************************************************)
(* Claims about the detector.                                              *)
(***************************************************************************)
\* the maximal runs of characters of class in t, as a set: a run starts
\* where the character before is not of the class and ends at the first
\* place from there where the character after is not
TokensOf(t, class) ==
  LET starts == {a \in DOMAIN t :
                   t[a] \in class /\ (a = 1 \/ t[a - 1] \notin class)}
      ends == {b \in DOMAIN t :
                 t[b] \in class /\ (b = Len(t) \/ t[b + 1] \notin class)}
  IN {SubSeq(t, a, CHOOSE b \in ends :
                     b >= a /\ \A c \in ends : c >= a => b <= c) :
        a \in starts}

\* sub occurs in s
Occurs(sub, s) ==
  \E a \in 1..(Len(s) + 1) :
    \A k \in DOMAIN sub : a + k - 1 <= Len(s) /\ s[a + k - 1] = sub[k]

Emitted(i, j, type) ==
  <<inputChunks[i].id, inputChunks[j].id, type>> \in Range(relationships)

\* C23: for chunks i before j of the list, (id_i, id_j, IMPLEMENTS) is
\* emitted exactly when i is a feature, j is a requirement and the
\* lowercased word sets of the two texts, without the stop words of
\* _has_implementation (shall, must, will among them), share at least two
\* words; "Implements OAuth2 login" before "System shall support OAuth2
\* login" gives the edge.
C23_ImplementsRule ==
  kpc = "detected" =>
    /\ {<<"s", "h", "a", "l", "l">>, <<"m", "u", "s", "t">>,
        <<"w", "i", "l", "l">>} \subseteq ImplementationStopWords
    /\ \A i, j \in DOMAIN inputChunks :
         i < j =>
           (Emitted(i, j, "IMPLEMENTS") <=>
              /\ inputChunks[i].chunk_type = "feature"
              /\ inputChunks[j].chunk_type = "requirement"
              /\ Cardinality(
                   (TokensOf(ToLower(inputChunks[i].text), WordChars)
                      \cap TokensOf(ToLower(inputChunks[j].text), WordChars))
                     \ ImplementationStopWords) >= 2)

\* C23 witness: the scenario of the spec
C23_Witness ==
  /\ kpc = "detected" /\ Len(inputChunks) = 2
  /\ inputChunks[1].chunk_type = "feature" /\ inputChunks[1].text = TextA
  /\ inputChunks[2].chunk_type = "requirement"
  /\ inputChunks[2].text = TextB
  /\ Emitted(1, 2, "IMPLEMENTS")

\* the relationships emitted for the chunks i and j, as places of the list
EmittedAt(i, j) ==
  {k \in DOMAIN relationships :
     /\ relationships[k][1] = inputChunks[i].id
     /\ relationships[k][2] = inputChunks[j].id}

\* C24: for chunks i before j of the list, (id_i, id_j, DEPENDS_ON) is
\* emitted exactly when the lowercased text of i holds one of the six
\* keywords and holds a whitespace-separated token, longer than 3, of the
\* lowercased section title of j; a pair gets each of the three types at
\* most once, whatever the other two checks say.
C24_DependsOnRule ==
  kpc = "detected" =>
    \A i, j \in DOMAIN inputChunks :
      i < j =>
        /\ Emitted(i, j, "DEPENDS_ON") <=>
             /\ \E kw \in DependencyKeywords :
                  Occurs(kw, ToLower(inputChunks[i].text))
             /\ \E term \in TokensOf(ToLower(inputChunks[j].section_title),
                                     Range(inputChunks[j].section_title)
                                       \ {" "}) :
                  Len(term) > 3 /\ Occurs(term, ToLower(inputChunks[i].text))
        /\ Cardinality(EmittedAt(i, j)) <= 3
        /\ \A k, m \in EmittedAt(i, j) :
             relationships[k][3] = relationships[m][3] => k = m
        /\ \A k \in EmittedAt(i, j) :
             relationships[k][3] \in {"DEPENDS_ON", "REFERENCES", "IMPLEMENTS"}

\* C24 witness: one pair got all three edges, and another list's pair none
C24_Witness ==
  /\ kpc = "detected" /\ Len(inputChunks) = 3
  /\ Cardinality(EmittedAt(1, 2)) = 3
  /\ EmittedAt(2, 3) = {}

\* the place of a chunk id in the list
IndexOf(id) == CHOOSE i \in DOMAIN inputChunks : inputChunks[i].id = id

\* the ids reachable from a chunk over n or fewer emitted DEPENDS_ON edges
RECURSIVE DependsWithin(_, _)
DependsWithin(id, n) ==
  IF n = 0 THEN {}
  ELSE LET near == {r[2] : r \in {x \in Range(relationships) :
                                    x[1] = id /\ x[3] = "DEPENDS_ON"}}
       IN near \cup UNION {DependsWithin(d, n - 1) : d \in near}

\* C29: every emitted relationship goes from a chunk to a chunk later in
\* the list: none from a chunk to itself, none in both directions with one
\* type, no cycle of DEPENDS_ON edges; and the call touches no store.
C29_EarlierToLaterOnly ==
  kpc = "detected" =>
    /\ \A r \in Range(relationships) :
         /\ IndexOf(r[1]) < IndexOf(r[2])
         /\ r[1] # r[2]
         /\ <<r[2], r[1], r[3]>> \notin Range(relationships)
    /\ \A i \in DOMAIN inputChunks :
         inputChunks[i].id
           \notin DependsWithin(inputChunks[i].id, Len(inputChunks))
    /\ nodes = {} /\ edges = {} /\ vec = {} /\ rel.chunks = {}

\* C29 witness: the text of the second chunk names a dependency on the
\* first, which depends on the third; only the edge to the later chunk is
\* there.
C29_Witness ==
  /\ kpc = "detected" /\ Len(inputChunks) = 3
  /\ HasDependency(inputChunks[2].text, inputChunks[1])
  /\ ~Emitted(2, 1, "DEPENDS_ON")
  /\ Emitted(1, 3, "DEPENDS_ON")


(***************************************************************************)
(* PRDOptimizerService._update_fact (SpecOptimize) on the stores of         *)
(* InitDelete.                                                             *)
(***************************************************************************)
\* what the LLM suggests for a fact: optimized_text, suggested_type,
\* suggested_priority
Optimizations ==
  [text : {"t7", "t8"}, type : {"requirement", "feature"},
   priority : {"high", "low"}]

\* the attributes a GraphService object has (__init__ 26-30)
GraphServiceAttributes == {"url", "graph_name", "client", "available"}

\* MATCH (c:Chunk {id: $chunk_id}) SET c.text = ..., c.type = ...,
\* c.priority = ... (289-295; c.optimized is left out)
SetChunkProps(ns, chunk, opt) ==
  {IF n.label = "Chunk" /\ n.id = chunk
   THEN [n EXCEPT !.p.text = opt.text, !.p.type = opt.type,
                  !.p.priority = opt.priority]
   ELSE n : n \in ns}

\* _update_fact 230-304 for the fact of chunk and the optimization opt: the
\* chunk is indexed again in the vector store, then, with a graph service,
\* the node is updated through graph_service.driver inside a try/except
\* that logs the error.
UpdateFact(chunk, opt) ==
  LET index == CallStep("vector", "index_chunk", 0)
      update == CallStep("graph", "driver.session", 0)
      calls == <<index>> \o (IF ServicePresent("graph") THEN <<update>>
                             ELSE <<>>)
      errors == {x \in Range(calls) :
                   x = update /\ "driver" \notin GraphServiceAttributes}
  IN /\ vec' = vec \cup {chunk}
     /\ nodes' = IF update \in Range(calls) \ errors
                 THEN SetChunkProps(nodes, chunk, opt) ELSE nodes
     /\ run' = [op |-> "update_fact", arg |-> chunk,
                planned |-> <<index, update>>, attempted |-> calls,
                failed |-> errors, logged |-> errors, raised |-> FALSE,
                from |-> "-", value |-> opt]
     /\ UNCHANGED <<svc, rel, edges, sentRel, upserted, del, queryVars,
                    decodeVars, auxVars, clientVars>>

NextOptimize ==
  \E i \in 1..MaxChunks, opt \in Optimizations :
    UpdateFact(CoordChunks[i].id, opt)

SpecOptimize == InitDelete /\ [][NextOptimize]_vars

\* C25: after _update_fact of a chunk that has a node in a connected graph,
\* the graph has one Chunk node of that id, and its text, type and
\* priority are those written to the vector index.
C25_OptimizedInPlace ==
  (run.op = "update_fact" /\ svc.graph = "ok"
     /\ Matching(nodes, "Chunk", run.arg) # {}) =>
    /\ Cardinality(Matching(nodes, "Chunk", run.arg)) = 1
    /\ \A n \in Matching(nodes, "Chunk", run.arg) :
         /\ n.p.text = run.value.text
         /\ n.p.type = run.value.type
         /\ n.p.priority = run.value.priority


(***************************************************************************)
(* FeatureRequestService (SpecRequests): the rows of feature_requests and   *)
(* the PRD rows elaboration creates, under the triage calls.               *)
(***************************************************************************)
\* most PRDs created by elaboration
MaxElaborations == 2

\* the uuids elaborate_to_prd draws (259), in the order drawn
ElaboratedPrdIds == <<"e1", "e2", "e3", "e4">>

\* the statuses the triage calls set (175-223)
TriageStatus ==
  [start_review |-> "under_review", accept_request |-> "accepted",
   reject_request |-> "rejected", merge_request |-> "merged"]

RequestRun(op, arg, value) ==
  [op |-> op, arg |-> arg, planned |-> <<>>, attempted |-> <<>>,
   failed |-> {}, logged |-> {}, raised |-> FALSE, from |-> "-",
   value |-> value]

InitRequests ==
  /\ QueryIdle /\ ClientIdle /\ GraphIdle /\ CoordIdle /\ DetectIdle
  /\ RequestsIdle /\ CovIdle /\ JobsIdle

\* create_request 68-110: a new row with status raw
CreateRequest(id) ==
  /\ requests[id] = NoRequest
  /\ requests' = [requests EXCEPT ![id] = [status |-> "raw",
                                           prd_id |-> "none"]]
  /\ run' = RequestRun("create_request", id, [result |-> id, code |-> 200])
  /\ UNCHANGED <<svc, rel, vec, inputChunks, relationships, kpc, cov, jobs,
                 queryVars, decodeVars, clientVars, graphVars>>

\* start_review, accept_request, reject_request, merge_request 175-223
\* through update_request 149-169: None without a row, else the status is
\* set whatever it was
Triage(op, id) ==
  /\ requests' = IF requests[id] = NoRequest THEN requests
                 ELSE [requests EXCEPT ![id].status = TriageStatus[op]]
  /\ run' = RequestRun(op, id,
                       IF requests[id] = NoRequest
                       THEN [result |-> "None", code |-> 404]
                       ELSE [result |-> id, code |-> 200])
  /\ UNCHANGED <<svc, rel, vec, inputChunks, relationships, kpc, cov, jobs,
                 queryVars, decodeVars, clientVars, graphVars>>

\* A plausible slip: the status is not looked at.
ElaborableStatusesAny ==
  {"raw", "under_review", "accepted", "rejected", "merged", "elaborating"}

\* elaborate_to_prd 251
ElaborableStatuses == {"accepted", "elaborating"}

\* elaborate_to_prd 231-283 behind POST /requests/{id}/elaborate (routes.py
\* 2472-2494): None, answered with 400, without a row or with a status that
\* is not elaborable; else a PRD row of a new id, status elaborating and
\* prd_id set
ElaborateToPrd(id) ==
  LET prd_id == ElaboratedPrdIds[Cardinality(rel.prds) + 1]
      refused == \/ requests[id] = NoRequest
                 \/ requests[id].status \notin ElaborableStatuses
  IN /\ Cardinality(rel.prds) < MaxElaborations
     /\ requests' = IF refused THEN requests
                    ELSE [requests EXCEPT ![id] = [status |-> "elaborating",
                                                   prd_id |-> prd_id]]
     /\ rel' = IF refused THEN rel
               ELSE [rel EXCEPT !.prds = @ \cup {prd_id}]
     /\ run' = RequestRun("elaborate_to_prd", id,
                          IF refused THEN [result |-> "None", code |-> 400]
                          ELSE [result |-> prd_id, code |-> 200])
     /\ UNCHANGED <<svc, vec, inputChunks, relationships, kpc, cov, jobs,
                    queryVars, decodeVars, clientVars, graphVars>>

NextRequests ==
  \/ \E id \in RequestIds : CreateRequest(id)
  \/ \E op \in DOMAIN TriageStatus, id \in RequestIds : Triage(op, id)
  \/ \E id \in RequestIds : ElaborateToPrd(id)

SpecRequests == InitRequests /\ [][NextRequests]_vars

\* C26: an elaborate_to_prd of a request that has a row with status
\* accepted or elaborating adds one PRD row of a new id, sets the status to
\* elaborating and prd_id to that id; of any other request it returns None
\* (the endpoint answers 400), adds no PRD row and leaves every request row
\* as it was.
C26_ElaborationGuardedByStatus ==
  [][run'.op = "elaborate_to_prd" =>
       LET id == run'.arg
       IN IF requests[id].status \in {"accepted", "elaborating"}
          THEN /\ run'.value.result \notin rel.prds \cup {"None"}
               /\ run'.value.code = 200
               /\ rel'.prds = rel.prds \cup {run'.value.result}
               /\ requests'[id] = [status |-> "elaborating",
                                   prd_id |-> run'.value.result]
               /\ \A r \in RequestIds \ {id} : requests'[r] = requests[r]
          ELSE /\ run'.value = [result |-> "None", code |-> 400]
               /\ rel' = rel
               /\ requests' = requests]_vars

\* C26 witness: after the elaboration of another request, the elaboration
\* of a rejected request was refused
C26_Witness ==
  /\ run.op = "elaborate_to_prd" /\ run.value.result = "None"
  /\ requests[run.arg].status = "rejected"
  /\ \E r \in RequestIds : requests[r].status = "elaborating"
                             /\ requests[r].prd_id \in rel.prds


\* what the other callers write: the requirement c1 and the artifact c2
RaceChunkData ==
  [c1 |-> [type |-> "requirement", text |-> "t1", priority |-> "high",
           context |-> "x1"],
   c2 |-> [type |-> "test_case", text |-> "t2", priority |-> "high",
           context |-> "x2"]]

(***************************************************************************)
(* Edge operations among upserts and deletes (SpecEdges): the writes of    *)
(* SpecGraph with one value per node, and relationships between any two    *)
(* chunk ids in both directions.                                           *)
(***************************************************************************)
NextEdges ==
  \/ \E prd \in PrdIds, ok \in BOOLEAN : CreatePrdNode(prd, CoordPrdData, ok)
  \/ \E c \in ChunkIds, ok \in BOOLEAN :
       CreateChunkNode(c, RaceChunkData[c], ok)
  \/ \E c \in ChunkIds, prd \in PrdIds, ok \in BOOLEAN :
       LinkChunkToPrd(c, prd, ok)
  \/ \E src \in ChunkIds, dst \in ChunkIds, ok \in BOOLEAN :
       CreateRelationship(src, dst, "DEPENDS_ON", {}, ok)
  \/ \E prd \in PrdIds, ok \in BOOLEAN : DeletePrdChunks(prd, ok)
  \/ \E ok \in BOOLEAN : DeletePrdNodeStep(ok)

SpecEdges == InitGraph /\ [][NextEdges]_vars

\* every edge of es starts and ends at a node of ns
Attached(ns, es) ==
  \A e \in es : /\ e.src \in {Nid(n) : n \in ns}
                /\ e.dst \in {Nid(n) : n \in ns}

\* C28: among upserts, links, relationship creations and delete_prd calls
\* in any order, failed queries included, every edge has both its endpoints
\* present as nodes after every step, and a step that adds or changes an
\* edge adds no node: link_chunk_to_prd and create_relationship on a missing
\* endpoint leave the graph as it was.
C28_NoDanglingEdges ==
  [][/\ Attached(nodes', edges')
     /\ (edges' \ edges # {}) =>
          /\ nodes' = nodes
          /\ \A e \in edges' \ edges :
               /\ e.src \in {Nid(n) : n \in nodes}
               /\ e.dst \in {Nid(n) : n \in nodes}]_vars

\* create_relationship was sent for c1 -> c2 while c2 was never upserted,
\* and a link of c1 to a PRD exists: the graph holds c1, the PRD and the
\* link only
C28_Witness ==
  /\ sentRel # {}
  /\ upserted["c2"].data = NoData
  /\ Matching(nodes, "Chunk", "c1") # {}
  /\ Cardinality(edges) = 1
  /\ \A e \in edges : e.type = "BELONGS_TO"

(***************************************************************************)
(* A coverage call among other callers (SpecCoverRace): get_test_coverage   *)
(* and get_documentation_coverage make three queries; other requests write *)
(* to the graph between them.                                              *)
(***************************************************************************)
InitCoverRace ==
  /\ AuxIdle
  /\ QueryIdle /\ CoordIdle
  /\ client = TRUE /\ available = TRUE /\ moduleLoaded = TRUE
  /\ conn = [ctor |-> "ok", open |-> "ok", ping |-> "ok", probe |-> "ok"]
  /\ ret = NoRet
  /\ nodes = MergeNode({}, "PRD", "p1", CoordPrdData)
  /\ edges = {} /\ sentRel = {} /\ del = IdleDel
  /\ upserted = [c \in ChunkIds |-> [data |-> NoData, overwrote |-> FALSE]]

CoverageFrame ==
  UNCHANGED <<inputChunks, relationships, kpc, requests, jobs, queryVars,
              decodeVars, clientVars, graphVars, coordVars>>

\* the first query (415-421): total_requirements
CoverageTotal(type, prd) ==
  /\ cov.pc \in {"idle", "returned"}
  /\ cov' = [NoCov EXCEPT
               !.pc = "total", !.type = type, !.prd = prd,
               !.total_requirements =
                 CoverageCounts(nodes, edges, prd, type).total]
  /\ CoverageFrame

\* the second query (423-430): covered_requirements
CoverageCovered ==
  /\ cov.pc = "total"
  /\ cov' = [cov EXCEPT
               !.pc = "covered",
               !.covered_requirements =
                 CoverageCounts(nodes, edges, cov.prd, cov.type).covered]
  /\ CoverageFrame

\* the third query and the result (432-449)
CoverageReturn ==
  /\ cov.pc = "covered"
  /\ cov' = [cov EXCEPT
               !.pc = "returned",
               !.total_artifacts =
                 CoverageCounts(nodes, edges, cov.prd, cov.type).artifacts,
               !.uncovered_requirements =
                 cov.total_requirements - cov.covered_requirements,
               !.coverage_percent =
                 RoundedPercent(cov.covered_requirements,
                                cov.total_requirements)]
  /\ CoverageFrame

NextCoverRace ==
  \/ \E c \in ChunkIds : CreateChunkNode(c, RaceChunkData[c], TRUE)
  \/ \E c \in ChunkIds : LinkChunkToPrd(c, "p1", TRUE)
  \/ \E type \in {"TESTS", "DOCUMENTS"} :
       CreateRelationship("c2", "c1", type, {}, TRUE)
  \/ CreatePrdNode("p1", CoordPrdData, TRUE)
  \/ DeletePrdChunks("p1", TRUE)
  \/ DeletePrdNodeStep(TRUE)
  \/ \E type \in {"TESTS", "DOCUMENTS"} : CoverageTotal(type, "p1")
  \/ CoverageCovered
  \/ CoverageReturn

SpecCoverRace == InitCoverRace /\ [][NextCoverRace]_vars

\* C27: every result of get_test_coverage and get_documentation_coverage
\* has 0 <= covered_requirements <= total_requirements,
\* uncovered_requirements >= 0 and 0 <= coverage_percent <= 100 (percent in
\* hundredths), whatever other callers wrote between its queries.
C27_CoverageConsistent ==
  cov.pc = "returned" =>
    /\ 0 <= cov.covered_requirements
    /\ cov.covered_requirements <= cov.total_requirements
    /\ cov.uncovered_requirements >= 0
    /\ 0 <= cov.coverage_percent /\ cov.coverage_percent <= 10000


(***************************************************************************)
(* Background jobs (SpecJobs): JobService over the job rows, the tasks of  *)
(* run_async_job on the event loop, and _active_jobs. A task is scheduled, *)
(* then runs its coroutine to an await, then finishes with a result or an  *)
(* exception; a cancelled task gets CancelledError at its next step.       *)
(***************************************************************************)
InitJobs ==
  /\ QueryIdle /\ ClientIdle /\ GraphIdle /\ CoordIdle
  /\ DetectIdle /\ RequestsIdle /\ CovIdle
  /\ JobsIdle

JobsFrame ==
  UNCHANGED <<inputChunks, relationships, kpc, requests, cov, queryVars,
              decodeVars, clientVars, graphVars, coordVars>>

\* the row of job j gets status st, when there is a row (`if job:`)
SetJobStatus(rows, j, st) ==
  IF rows[j] = "none" THEN rows ELSE [rows EXCEPT ![j] = st]

\* create_job: a new row, pending
CreateJob(j) ==
  /\ jobs.rows[j] = "none"
  /\ jobs' = [jobs EXCEPT !.rows[j] = "pending"]
  /\ JobsFrame

\* run_async_job(job_id, coro): the task is created and registered
RunAsyncJob(j) ==
  /\ jobs.rows[j] # "none"
  /\ jobs.tasks[j] = "none"
  /\ jobs' = [jobs EXCEPT !.tasks[j] = "scheduled",
                          !.active = @ \cup {j}]
  /\ JobsFrame

\* the task's first step: the coroutine runs to its first await; with a
\* JobProgressTracker it calls start_job on entry (299-301, 123-133)
TaskStart(j, tracked) ==
  /\ jobs.tasks[j] = "scheduled"
  /\ jobs' = [jobs EXCEPT
                !.tasks[j] = "awaiting",
                !.rows = IF tracked
                         THEN SetJobStatus(jobs.rows, j, "processing")
                         ELSE @]
  /\ JobsFrame

\* the coroutine returns or raises: complete_job or fail_job, then the
\* finally clause (238-247)
TaskFinish(j, outcome) ==
  /\ jobs.tasks[j] = "awaiting"
  /\ jobs' = [jobs EXCEPT
                !.tasks[j] = "done",
                !.rows = SetJobStatus(jobs.rows, j,
                           IF outcome = "result" THEN "completed"
                           ELSE "failed"),
                !.active = @ \ {j}]
  /\ JobsFrame

\* the cancelled task's next step: CancelledError, logged (241-242)
TaskCancelled(j) ==
  /\ jobs.tasks[j] = "cancelling"
  /\ jobs' = [jobs EXCEPT !.tasks[j] = "done", !.active = @ \ {j}]
  /\ JobsFrame

\* the statuses cancel_job changes (175)
CancellableStatuses == {"pending", "processing"}

\* cancel_job(job_id)
CancelJob(j) ==
  LET registered == j \in jobs.active
      cancels == jobs.rows[j] \in CancellableStatuses
  IN /\ jobs' = [jobs EXCEPT
                   !.tasks[j] = IF registered /\ @ \in {"scheduled", "awaiting"}
                                THEN "cancelling" ELSE @,
                   !.active = @ \ {j},
                   !.rows[j] = IF cancels THEN "cancelled" ELSE @,
                   !.cancelReturnedTrue = IF cancels THEN @ \cup {j} ELSE @]
     /\ JobsFrame

NextJobs ==
  \/ \E j \in JobIds : CreateJob(j)
  \/ \E j \in JobIds : RunAsyncJob(j)
  \/ \E j \in JobIds, tracked \in BOOLEAN : TaskStart(j, tracked)
  \/ \E j \in JobIds, outcome \in {"result", "exception"} :
       TaskFinish(j, outcome)
  \/ \E j \in JobIds : TaskCancelled(j)
  \/ \E j \in JobIds : CancelJob(j)

SpecJobs == InitJobs /\ [][NextJobs]_vars

TerminalStatuses == {"completed", "failed", "cancelled"}

\* C30: a job whose status is completed, failed or cancelled keeps it in
\* every later step; so a job for which cancel_job returned True is never
\* marked completed or failed by a task of run_async_job, and cancel_job
\* leaves a completed or failed job as it is.
C30_TerminalStatusStable ==
  [][\A j \in JobIds :
       jobs.rows[j] \in TerminalStatuses => jobs'.rows[j] = jobs.rows[j]]_vars

=============================================================================
